---- MODULE Spec2Model ----
(***************************************************************************)
(* Meteora DLMM instruction forms of the governance UI.                    *)
(*                                                                         *)
(* Every form component keeps a form state, registers a producer           *)
(* (getInstruction) with the enclosing proposal through                    *)
(* handleSetInstructions, and the proposal invokes the registered producer *)
(* at submission time.  A producer is a closure: it reads the form of the  *)
(* render in which it was created.  One mounted component is modelled at a *)
(* time; `component` says which one.                                       *)
(* The create-position forms also keep the details the price feed gives   *)
(* for the pool address: `fetches` holds the requests in flight,           *)
(* `poolDetails` the last answer and `isLoadingPoolDetails` the loading    *)
(* flag.                                                                   *)
(*                                                                         *)
(* The token decimals lookup (DecimalLookup.tsx) is a component of its own *)
(* with the specification Lookup; `lookup` holds its state.                *)
(*                                                                         *)
(* The wallet store (part_005) has the specification Store: `store` holds *)
(* its maps and `fetchRealms` the calls of fetchRealm under way.           *)
(*                                                                         *)
(* The helpers that are functions of their arguments alone (the amount     *)
(* conversion, getMintDecimals, isBase58, fetchPoolData) are applied to    *)
(* bounded inputs by a second specification, Library: `call` holds the     *)
(* function and its arguments, `ret` what it answered.                     *)
(***************************************************************************)
EXTENDS Integers, Sequences, FiniteSets, Bags, TLC

VARIABLES component, form, wallet, slot, registered, last, formErrors,
          poolDetails, fetches, isLoadingPoolDetails, call, ret, lookup,
          store, fetchRealms

vars == <<component, form, wallet, slot, registered, last, formErrors,
          poolDetails, fetches, isLoadingPoolDetails, call, ret, lookup,
          store, fetchRealms>>

----------------------------------------------------------------------------
(* Bounds of the model *)

\* At most this many kinds of remote call fail during one invocation.
MaxFails == 1

\* A producer pushes at most this many presets onto its validPairs.
MaxValidPairs == 2

----------------------------------------------------------------------------
(* The form components *)

AddLiquidity        == "AddLiquidity"         \* AddLiquidity.tsx, part_003
CreateLiquidityPool == "CreateLiquidityPool"  \* CreateLiquidityPool.tsx
CreatePosition1     == "CreatePosition1"      \* CreatePosition.tsx:29
CreatePosition2     == "CreatePosition2"      \* CreatePosition.tsx:376
CreatePosition3     == "CreatePosition3"      \* ClaimRewards.tsx:315
CreateMeteoraPool   == "CreateMeteoraPool"    \* CreatePool.tsx:17
CreateEmptyPosition == "CreateEmptyPosition"  \* CreatePool.tsx:173
CreateDLMM          == "CreateDLMM"           \* CreatePool.tsx:390
CreateDLMMMeta      == "CreateDLMMMeta"       \* part_000
NewPoolPosition     == "NewPoolPosition"      \* CreatePool.tsx:657
RemoveLiquidity1    == "RemoveLiquidity1"     \* RemoveLiquidity.tsx:48
RemoveLiquidity2    == "RemoveLiquidity2"     \* RemoveLiquidity.tsx:231
ClaimRewards1       == "ClaimRewards1"        \* ClaimRewards.tsx:27
ClaimRewards2       == "ClaimRewards2"        \* part_004
ClosePosition       == "ClosePosition"        \* part_001

Components ==
  { AddLiquidity, CreateLiquidityPool, CreatePosition1, CreatePosition2,
    CreatePosition3, CreateMeteoraPool, CreateEmptyPosition, CreateDLMM,
    CreateDLMMMeta, NewPoolPosition, RemoveLiquidity1, RemoveLiquidity2,
    ClaimRewards1, ClaimRewards2, ClosePosition }

----------------------------------------------------------------------------
(* Values of the form fields *)

NoGov == "undefined"
Govs  == {"g1"}

\* Address strings: empty, not a public key, a public key.
NotAKey   == "not-a-key"
Addresses == {"", NotAKey, "A1"}

\* new PublicKey(s) throws unless s decodes to a 32 byte key.
IsPubkey(s) == s \notin {"", NotAKey}

\* Amounts typed by the user, in whole tokens.
Amounts == {0, 1}

\* Prices typed by the user.
Prices == {0, 2}

\* Base fee and bin size typed by the user.
FeeSteps == {0, 1}

\* The price feed's answer for a pair: its name and current price, in
\* quote tokens per base token.  NoDetails is useState(null).  Amounts
\* are whole tokens here, so the quote amounts typed into a form that
\* shows pool details are multiples of the price.
NoDetails  == [name |-> "", current_price |-> 0]
PoolPrices == {2}

\* useState(...) of every component: addresses '', amounts '0' or 0,
\* no governed account.  A field a component does not have keeps its
\* default here and is never edited.
InitialForm ==
  [ governedAccount  |-> NoGov,
    dlmmPoolAddress  |-> "",
    positionPubkey   |-> "",
    quoteToken       |-> 0,
    baseToken        |-> 0,
    tokenAmount      |-> 0,
    baseTokenAmount  |-> 0,
    quoteTokenAmount |-> 0,
    configAddress    |-> "",
    baseTokenMint    |-> "",
    quoteTokenMint   |-> "",
    tokenAMint       |-> "",
    tokenBMint       |-> "",
    minPrice         |-> 0,
    maxPrice         |-> 0,
    baseFee          |-> 0,
    binSize          |-> 0,
    autofill         |-> TRUE ]

\* The inputs of each component (its `inputs` array) that its producer
\* reads; inputs the producer passes through or ignores (strategy,
\* slippage, removeAll, allocations, token names, amounts no call is
\* given) are not modelled.
Inputs(c) ==
  CASE c = AddLiquidity ->
         {"governedAccount", "dlmmPoolAddress", "positionPubkey", "quoteToken", "baseToken"}
    [] c = CreateLiquidityPool ->
         {"governedAccount", "baseTokenMint", "quoteTokenMint", "baseTokenAmount", "configAddress"}
    [] c = CreatePosition1 ->
         {"governedAccount", "dlmmPoolAddress", "tokenAmount"}
    [] c = CreatePosition2 ->
         {"governedAccount", "dlmmPoolAddress", "baseTokenAmount", "quoteTokenAmount",
          "minPrice", "maxPrice", "autofill"}
    [] c = CreatePosition3 ->
         {"governedAccount", "dlmmPoolAddress", "baseTokenAmount", "quoteTokenAmount"}
    [] c = CreateMeteoraPool ->
         {"governedAccount", "tokenAMint", "tokenBMint", "configAddress"}
    [] c = CreateEmptyPosition ->
         {"governedAccount", "dlmmPoolAddress", "quoteToken", "baseToken"}
    [] c \in {CreateDLMM, CreateDLMMMeta, NewPoolPosition} ->
         {"governedAccount", "baseTokenMint", "quoteTokenMint", "baseFee", "binSize"}
    [] c \in {RemoveLiquidity1, RemoveLiquidity2, ClosePosition} ->
         {"governedAccount", "dlmmPoolAddress", "positionPubkey"}
    [] c \in {ClaimRewards1, ClaimRewards2} ->
         {"governedAccount", "dlmmPoolAddress"}

\* The components that show the details of the pool.
HasPoolDetails(c) == c \in {CreatePosition2, CreatePosition3}

\* The values an input can be given.
Values(c, field) ==
  CASE field = "governedAccount" -> Govs
    [] field \in {"quoteToken", "baseToken", "tokenAmount", "baseTokenAmount"}
         \/ (field = "quoteTokenAmount" /\ ~HasPoolDetails(c)) -> Amounts
    [] field \in {"minPrice", "maxPrice"} -> Prices
    [] field \in {"baseFee", "binSize"} -> FeeSteps
    [] field = "autofill" -> BOOLEAN
    [] field = "quoteTokenAmount" /\ HasPoolDetails(c) -> {0, 2}
    [] field = "dlmmPoolAddress" /\ HasPoolDetails(c) -> {"", "A1"}
    [] field \in {"tokenAMint", "tokenBMint"} -> {"", "A1"}
    [] field \in {"baseTokenMint", "quoteTokenMint"} /\ c = CreateLiquidityPool -> {"", "A1"}
    [] field = "positionPubkey" /\ c = AddLiquidity -> {"", "A1"}
    [] OTHER -> Addresses

----------------------------------------------------------------------------
(* Instructions and their encoding *)

ComputeBudgetProgramId == "ComputeBudget111111111111111111111111111111"
DlmmProgramId          == "LBUZKhRxPF3XUpBCjp4YzTKgLccjZhTSDM9YuVaPwxo"

Ix1 == [programId |-> DlmmProgramId, data |-> "a"]
Ix2 == [programId |-> DlmmProgramId, data |-> "b"]
Cb  == [programId |-> ComputeBudgetProgramId, data |-> "limit"]

\* serializeInstructionToBase64: an injective encoding of one instruction.
serializeInstructionToBase64(ix) == <<"base64", ix.programId, ix.data>>

\* The empty string a producer returns as serializedInstruction.
EmptyString == <<>>

\* xs.map(serializeInstructionToBase64)
SerializeAll(xs) == [i \in 1..Len(xs) |-> serializeInstructionToBase64(xs[i])]

\* ix => !ix.programId.equals(ComputeBudgetProgram.programId)
NotComputeBudget(ix) == ix.programId # ComputeBudgetProgramId

\* txs.flatMap(tx => tx.instructions)
RECURSIVE FlatMap(_)
FlatMap(txs) == IF txs = <<>> THEN <<>> ELSE Head(txs) \o FlatMap(Tail(txs))

----------------------------------------------------------------------------
(* What the chain and the SDK answer during one invocation *)

\* What an SDK build call returns: a list of transactions, each a list of
\* instructions (a single Transaction is a list of one).
SdkAnswers ==
  { <<>>, << <<>> >>, << <<Cb>> >>, << <<Ix1>> >>, << <<Cb, Ix1>> >>,
    << <<Ix1, Ix2>> >>, << <<Ix1>>, <<Ix2>> >>, << <<Cb, Ix1>>, <<Cb, Ix2>> >> }

\* SDK build calls that return exactly one Transaction.
SingleTxAnswers == { a \in SdkAnswers : Len(a) = 1 }

\* Decimals the chain reports for an account, or none when the account
\* data is not a parsed mint.
NoDecimals == -1
FallbackDecimals == 6

\* useState of TokenDecimalsLookup: no address, decimals null, not
\* loading, no error; `phase` is where the latest run of lookupDecimals
\* stands and `closure` the mintAddress that run reads.
NoLookup ==
  [mintAddress |-> "", decimals |-> NoDecimals, loading |-> FALSE,
   error |-> "", phase |-> "idle", closure |-> ""]

\* The decimals of the two mints of the pool on the modelled chain: a base
\* token of 9 decimals against a quote token of 6.
BaseMintDecimals  == FallbackDecimals + 3
QuoteMintDecimals == FallbackDecimals

ActiveBinIds    == {100}
ActiveBinPrices == {2}

\* new PublicKey(s) on a string that is not a key.
InvalidPublicKey == "Invalid public key input"

\* The throw statements of the producers, by their message.
LocalThrows ==
  { InvalidPublicKey,
    "Position Pubkey is required and must be a valid string",
    "No transactions returned by addLiquidity.",
    "No instructions in the add liquidity transaction.",
    "No transactions returned by create position.",
    "No instructions in the create position transaction.",
    "No instructions returned by create position.",
    "Bin step not available",
    "Min price must be less than max price",
    "Governance account is required.",
    "No preset parameters found for binStep",
    "Position not found among user positions",
    "Position not found for the given public key.",
    "No transactions returned by removeLiquidity",
    "No instructions in the remove liquidity transaction.",
    "No valid instructions found to remove liquidity.",
    "No positions found for this owner.",
    "No transactions returned by claimAllRewards",
    "No instructions in the claimAllRewards transaction." }

\* Steps that are calls to the RPC node or to the SDK.
RemoteCalls ==
  { "DLMM.create", "refetchStates", "getActiveBin", "getParsedAccountInfo",
    "getAccountInfo", "getAccountInfo(owner)", "getPositionsByUserAndLbPair",
    "getBinsBetweenMinAndMaxPrice", "getMinimumBalanceForRentExemption",
    "addLiquidityByStrategy", "initializePositionAndAddLiquidityByStrategy",
    "createEmptyPosition", "removeLiquidity", "claimAllRewards",
    "getAllPresetParameters", "createLbPair", "getLatestBlockhash",
    "signTransaction", "sendTransaction", "sendAndConfirmTransaction",
    "confirmTransaction", "getPairPubkeyIfExists", "getTokenMetadata" }

Min(S) == CHOOSE x \in S : \A y \in S : x <= y

\* Runs the steps of `plan` in order until one fails: a step fails when it
\* is a throw statement or a call in `fails`.  `calls` are the calls
\* started, `failed` the call or the message that threw ("" when none did).
Run(plan, fails) ==
  LET bad  == { i \in 1..Len(plan) : plan[i] \in LocalThrows \/ plan[i] \in fails }
      stop == IF bad = {} THEN Len(plan) ELSE Min(bad)
  IN  [ calls  |-> SelectSeq(SubSeq(plan, 1, stop), LAMBDA st : st \notin LocalThrows),
        failed |-> IF bad = {} THEN "" ELSE plan[Min(bad)] ]

\* A throw statement reached after the steps of r.
Fail(r, message) == [r EXCEPT !.failed = message]

\* Two runs one after the other.
Then(r1, r2) == [calls |-> r1.calls \o r2.calls, failed |-> r2.failed]

----------------------------------------------------------------------------
(* Outcomes of one invocation of a producer *)

\* The arguments of the SDK build call of an invocation (op = "" when the
\* invocation made none).
NoSdk ==
  [ op |-> "", totalXAmount |-> 0, totalYAmount |-> 0,
    minBinId |-> 0, maxBinId |-> 0, position |-> "" ]

SdkCall(op, x, y, lo, hi, pos) ==
  [ op |-> op, totalXAmount |-> x, totalYAmount |-> y,
    minBinId |-> lo, maxBinId |-> hi, position |-> pos ]

\* No invocation since the last edit.
NoOutcome ==
  [ kind |-> "none", isValid |-> FALSE,
    serializedInstruction |-> EmptyString,
    additionalSerializedInstructions |-> <<>>,
    governance |-> NoGov, read |-> InitialForm, validated |-> FALSE,
    calls |-> <<>>, failed |-> "", sdk |-> NoSdk, returned |-> <<>> ]

\* The promise resolved with { serializedInstruction, isValid, governance,
\* additionalSerializedInstructions }.  The other fields record what the
\* invocation did: the form it read, whether validateInstruction passed,
\* the steps it started, the step that threw, the SDK build call and what
\* that call returned.
Resolved(f, isValid, ser, add, validated, r, sdk, returned) ==
  [ kind |-> "resolved", isValid |-> isValid,
    serializedInstruction |-> ser,
    additionalSerializedInstructions |-> add,
    governance |-> f.governedAccount, read |-> f, validated |-> validated,
    calls |-> r.calls, failed |-> r.failed, sdk |-> sdk, returned |-> returned ]

\* A failure that names no governance.
Invalid_noGovernance(f, validated, r, sdk, returned) ==
  [Resolved(f, FALSE, EmptyString, <<>>, validated, r, sdk, returned)
     EXCEPT !.governance = NoGov]

\* return { serializedInstruction: '', isValid: false, governance }
Invalid(f, validated, r, sdk, returned) ==
  Resolved(f, FALSE, EmptyString, <<>>, validated, r, sdk, returned)

\* The promise rejected: an exception left the producer.
Rejected(f, validated, r) ==
  [ kind |-> "rejected", isValid |-> FALSE,
    serializedInstruction |-> EmptyString,
    additionalSerializedInstructions |-> <<>>,
    governance |-> f.governedAccount, read |-> f, validated |-> validated,
    calls |-> r.calls, failed |-> r.failed, sdk |-> NoSdk, returned |-> <<>> ]

NoRun == [calls |-> <<>>, failed |-> ""]

\* A producer's result together with the form errors it leaves.
Done(outcome, errors) == [outcome |-> outcome, errors |-> errors]

----------------------------------------------------------------------------
(* Validation *)

\* A message is a sequence of strings, to be read concatenated.
\* The same with every message gathered under one key.
FieldError_underOneKey(cond, field, message) ==
  IF cond THEN {[field |-> "general", message |-> <<message>>]} ELSE {}

FieldError(cond, field, message) ==
  IF cond THEN {[field |-> field, message |-> <<message>>]} ELSE {}

General(message) == [field |-> "general", message |-> message]

\* setFormErrors(prev => ({ ...prev, general: message }))
WithGeneral(errors, message) ==
  { x \in errors : x.field # "general" } \cup { General(message) }

\* validateInstruction({schema, form, setFormErrors}): sets the form errors
\* to the schema's validation errors and answers whether there are none.
validateInstruction(validationErrors) == validationErrors = {}

\* getMintDecimals(mintAddress): the decimals the chain reports, 6 when
\* the lookup fails or the account is not a parsed mint.
getMintDecimals(mintAddress, e) ==
  IF ~IsPubkey(mintAddress) \/ "getParsedAccountInfo" \in e.fails
     \/ e.parsed = NoDecimals
  THEN FallbackDecimals
  ELSE e.parsed

Pow10(d) == IF d = 0 THEN 1 ELSE 10 ^ d

\* new BN(parseFloat(amount) * Math.pow(10, decimals)) for whole amounts
ToBaseUnits(amount, decimals) == amount * Pow10(decimals)

----------------------------------------------------------------------------
(* new BN(parseFloat(amount) * Math.pow(10, decimals)) in full             *)
(*                                                                         *)
(* parseFloat and the product are IEEE-754 double arithmetic: every result *)
(* is rounded to a 53-bit significand, ties to even.  Naturals beyond 32   *)
(* bits are little-endian sequences of 15-bit limbs, zero being the empty  *)
(* one.  A double is [m, e], standing for m * 2^e with 2^52 <= m < 2^53,   *)
(* or zero with an empty m.                                                *)

\* x * c + carry, for a factor c below the limb
RECURSIVE MulSmall(_, _, _)
MulSmall(x, c, carry) ==
  IF x = <<>>
  THEN IF carry = 0 THEN <<>>
       ELSE <<carry % (2 ^ 15)>> \o MulSmall(<<>>, c, carry \div (2 ^ 15))
  ELSE LET t == Head(x) * c + carry
       IN <<t % (2 ^ 15)>> \o MulSmall(Tail(x), c, t \div (2 ^ 15))

\* quotient and remainder of x by a divisor c below the limb
RECURSIVE DivSmall(_, _)
DivSmall(x, c) ==
  IF x = <<>> THEN [q |-> <<>>, r |-> 0]
  ELSE LET hi == DivSmall(Tail(x), c)
           t  == hi.r * (2 ^ 15) + Head(x)
       IN [q |-> IF hi.q = <<>> /\ t \div c = 0 THEN <<>>
                 ELSE <<t \div c>> \o hi.q,
           r |-> t % c]

\* x * b^k for b = 2 or b = 10, a few digits at a time
RECURSIVE TimesPower(_, _, _)
TimesPower(x, b, k) ==
  LET step == IF b = 2 THEN 14 ELSE 4
  IN IF k = 0 THEN x
     ELSE IF k > step
     THEN MulSmall(TimesPower(x, b, k - step), b ^ step, 0)
     ELSE MulSmall(x, b ^ k, 0)

\* floor(x / b^k) for b = 2 or b = 10, and whether the division left a
\* remainder
RECURSIVE OverPower(_, _, _)
OverPower(x, b, k) ==
  LET step == IF b = 2 THEN 14 ELSE 4
  IN IF k = 0 THEN [q |-> x, inexact |-> FALSE]
     ELSE LET d    == DivSmall(x, b ^ (IF k > step THEN step ELSE k))
              rest == OverPower(d.q, b, IF k > step THEN k - step ELSE 0)
          IN [q |-> rest.q, inexact |-> rest.inexact \/ d.r # 0]

\* the number of bits of x
BitLength(x) ==
  LET RECURSIVE Bits(_)
      Bits(n) == IF n = 0 THEN 0 ELSE 1 + Bits(n \div 2)
  IN IF x = <<>> THEN 0 ELSE 15 * (Len(x) - 1) + Bits(x[Len(x)])

\* The double nearest to (q + a fraction below one, present when inexact)
\* times 2^e, ties to even: q is brought to 54 bits, the last of which
\* decides the rounding.
ToDouble(q, inexact, e) ==
  IF q = <<>> THEN [m |-> <<>>, e |-> 0]
  ELSE LET n  == BitLength(q)
           h  == IF n > 54 THEN OverPower(q, 2, n - 54)
                 ELSE [q |-> TimesPower(q, 2, 54 - n), inexact |-> FALSE]
           d  == DivSmall(h.q, 2)
           up == d.r = 1 /\ (inexact \/ h.inexact \/ Head(d.q) % 2 = 1)
           s  == IF up THEN MulSmall(d.q, 1, 1) ELSE d.q
           e1 == e + (n - 54) + 1
       IN IF BitLength(s) = 54 THEN [m |-> DivSmall(s, 2).q, e |-> e1 + 1]
          ELSE [m |-> s, e |-> e1]

\* parseFloat(amount): the double nearest to digits / 10^scale.  A decimal
\* string is its digits read as a whole number and the count of digits
\* after the point: "1.5" is digits 15, scale 1.
parseFloat(amount) ==
  LET s == 54 + 4 * amount.scale
      d == OverPower(TimesPower(MulSmall(<<>>, 1, amount.digits), 2, s),
                     10, amount.scale)
  IN ToDouble(d.q, d.inexact, 0 - s)

\* new BN(number): the number truncated to a whole one; bn.js asserts
\* that a number argument is below 2^53.
BN(number) ==
  LET whole == IF number.e >= 0 THEN TimesPower(number.m, 2, number.e)
               ELSE OverPower(number.m, 2, 0 - number.e).q
  IN IF BitLength(whole) <= 53 THEN [kind |-> "value", value |-> whole]
     ELSE [kind |-> "throws", value |-> <<>>]

\* new BN(parseFloat(amount) * Math.pow(10, mintDecimals)): 10^mintDecimals
\* is itself a double, the product is rounded once.
ScaledAmount(amount, mintDecimals) ==
  LET x == parseFloat(amount)
  IN BN(ToDouble(TimesPower(x.m, 10, mintDecimals), FALSE, x.e))

----------------------------------------------------------------------------

Started(r, op) == \E i \in 1..Len(r.calls) : r.calls[i] = op

\* The wallet hook: wallet?.publicKey and connected.
Wallets ==
  { [publicKey |-> FALSE, connected |-> FALSE],
    [publicKey |-> TRUE,  connected |-> FALSE],
    [publicKey |-> TRUE,  connected |-> TRUE] }

\* The first instruction of the first transaction becomes the primary
\* one, the rest of that transaction the additional ones; an empty list
\* throws into the catch block, which returns the invalid result.
FirstTransaction(f, validated, r, sdk, txArray, noTransactions, noInstructions) ==
  IF r.failed # "" THEN Invalid(f, validated, r, sdk, <<>>)
  ELSE IF Len(txArray) = 0
  THEN Invalid(f, validated, Fail(r, noTransactions), sdk, txArray)
  ELSE IF Len(txArray[1]) = 0
  THEN Invalid(f, validated, Fail(r, noInstructions), sdk, txArray)
  ELSE Resolved(f, TRUE, serializeInstructionToBase64(txArray[1][1]),
                SerializeAll(Tail(txArray[1])), validated, r, sdk, txArray)

\* createPositionTx.instructions without the compute budget ones: the
\* first becomes the primary instruction, the rest the additional ones.
FilteredTransaction(f, r, sdk, txArray) ==
  LET filteredInstructions == SelectSeq(txArray[1], NotComputeBudget)
      serializedInstructions == SerializeAll(filteredInstructions)
  IN
  IF r.failed # "" THEN Invalid(f, TRUE, r, sdk, <<>>)
  ELSE IF Len(filteredInstructions) = 0
  THEN Invalid(f, TRUE, Fail(r, "No instructions returned by create position."),
               sdk, txArray)
  ELSE Resolved(f, TRUE, Head(serializedInstructions),
                Tail(serializedInstructions), TRUE, r, sdk, txArray)

----------------------------------------------------------------------------
(* AddLiquidity.tsx (and its copy part_003) *)

AddLiquidity_schema(f) ==
  FieldError(f.governedAccount = NoGov, "governedAccount", "Governed account is required")
  \cup FieldError(f.dlmmPoolAddress = "", "dlmmPoolAddress", "DLMM Pool Address is required")
  \cup FieldError(f.positionPubkey = "", "positionPubkey", "Position Pubkey is required")

AddLiquidity_getInstruction(f, w, e, errs) ==
  LET validationErrors == AddLiquidity_schema(f)
      isValid == validateInstruction(validationErrors)
  IN
  IF ~isValid \/ f.governedAccount = NoGov \/ ~w.publicKey \/ ~w.connected
  THEN Done(Invalid(f, isValid, NoRun, NoSdk, <<>>), validationErrors)
  ELSE
    LET plan ==
          IF ~IsPubkey(f.dlmmPoolAddress) THEN <<InvalidPublicKey>>
          ELSE <<"DLMM.create", "refetchStates", "getActiveBin",
                 "useConnection", "getParsedAccountInfo">>
               \o (IF IsPubkey(f.positionPubkey)
                   THEN <<"addLiquidityByStrategy">> ELSE <<InvalidPublicKey>>)
        r == Run(plan, e.fails \ {"getParsedAccountInfo"})
        minBinId == e.activeBin - 10
        maxBinId == e.activeBin + 10
        mintDecimals == getMintDecimals(f.dlmmPoolAddress, e)
        quoteTokenAmount == ToBaseUnits(f.quoteToken, mintDecimals)
        baseTokenAmount  == ToBaseUnits(f.baseToken, mintDecimals)
        sdk == IF Started(r, "addLiquidityByStrategy")
               THEN SdkCall("addLiquidityByStrategy", quoteTokenAmount,
                            baseTokenAmount, minBinId, maxBinId, f.positionPubkey)
               ELSE NoSdk
    IN Done(FirstTransaction(f, TRUE, r, sdk, e.answer,
                             "No transactions returned by addLiquidity.",
                             "No instructions in the add liquidity transaction."),
            validationErrors)

----------------------------------------------------------------------------
(* CreateLiquidityPool.tsx *)

CreateLiquidityPool_schema(f) ==
  FieldError(f.governedAccount = NoGov, "governedAccount", "Governed account is required")
  \cup FieldError(f.baseTokenMint = "", "baseTokenMint", "Base Token Mint Address is required")
  \cup FieldError(f.quoteTokenMint = "", "quoteTokenMint", "Quote Token Mint Address is required")
  \cup FieldError(f.configAddress = "", "configAddress", "Config address is required")

CreateLiquidityPool_getInstruction(f, w, e, errs) ==
  LET validationErrors == CreateLiquidityPool_schema(f)
      isValid == validateInstruction(validationErrors)
  IN
  IF ~isValid \/ f.governedAccount = NoGov \/ ~w.publicKey \/ ~w.connected
  THEN Done(Invalid(f, isValid, NoRun, NoSdk, <<>>), validationErrors)
  ELSE
    LET build ==
          Run(IF ~IsPubkey(f.configAddress) THEN <<InvalidPublicKey>>
              ELSE <<"DLMM.create", "getActiveBin",
                     "initializePositionAndAddLiquidityByStrategy">>,
              e.fails)
        totalXAmount == f.baseTokenAmount
        totalYAmount == totalXAmount * e.price
        sdk == SdkCall("initializePositionAndAddLiquidityByStrategy",
                       totalXAmount, totalYAmount,
                       e.activeBin - 10, e.activeBin + 10, f.governedAccount)
        \* sendTransactionToBlockchain has its own try/catch
        send == Run(<<"signTransaction", "sendAndConfirmTransaction">>, e.fails)
        transactionIsValid == send.failed = ""
    IN
    IF build.failed # "" THEN Done(Rejected(f, TRUE, build), validationErrors)
    ELSE Done(Resolved(f, transactionIsValid, EmptyString, <<>>, TRUE,
                       Then(build, send), sdk, e.answer),
              validationErrors)

----------------------------------------------------------------------------
(* CreatePosition.tsx, first component *)

CreatePosition1_getInstruction(f, w, e, errs) ==
  IF f.governedAccount = NoGov \/ ~w.publicKey \/ ~w.connected
  THEN Done(Invalid(f, FALSE, NoRun, NoSdk, <<>>), errs)
  ELSE
    LET r == Run(IF ~IsPubkey(f.dlmmPoolAddress) THEN <<InvalidPublicKey>>
                 ELSE <<"DLMM.create", "refetchStates", "getActiveBin",
                        "initializePositionAndAddLiquidityByStrategy">>,
                 e.fails)
        totalXAmount == f.tokenAmount
        totalYAmount == totalXAmount * e.price
        sdk == IF Started(r, "initializePositionAndAddLiquidityByStrategy")
               THEN SdkCall("initializePositionAndAddLiquidityByStrategy",
                            totalXAmount, totalYAmount,
                            e.activeBin - 10, e.activeBin + 10, "generated")
               ELSE NoSdk
        o == FirstTransaction(f, FALSE, r, sdk, e.answer,
                              "No transactions returned by create position.",
                              "No instructions in the create position transaction.")
    IN Done(o, IF o.failed # ""
               THEN WithGeneral(errs, <<"Error building create position instruction">>)
               ELSE errs)

----------------------------------------------------------------------------
(* CreatePosition.tsx, second component, and ClaimRewards.tsx, second *)

CreatePosition_schema(f) ==
  FieldError(f.governedAccount = NoGov, "governedAccount", "Governed account is required")
  \cup FieldError(f.dlmmPoolAddress = "", "dlmmPoolAddress", "DLMM pool address is required")

CreatePosition_catch(o, validationErrors) ==
  IF o.failed # ""
  THEN WithGeneral(validationErrors,
                   <<"Error building create position instruction: ", o.failed>>)
  ELSE validationErrors

\* if (form.minPrice >= form.maxPrice) throw, CreatePosition.tsx:476
PriceRangeRejected_strict(f) == f.minPrice > f.maxPrice

PriceRangeRejected(f) == f.minPrice >= f.maxPrice

CreatePosition2_getInstruction(f, w, e, errs) ==
  LET validationErrors == CreatePosition_schema(f)
      isValid == validateInstruction(validationErrors)
  IN
  IF ~isValid \/ f.governedAccount = NoGov \/ ~w.publicKey \/ ~w.connected
  THEN Done(Invalid(f, isValid, NoRun, NoSdk, <<>>), validationErrors)
  ELSE
    LET plan ==
          IF ~IsPubkey(f.dlmmPoolAddress) THEN <<InvalidPublicKey>>
          ELSE <<"DLMM.create", "getBinsBetweenMinAndMaxPrice", "getActiveBin">>
               \o (IF PriceRangeRejected(f)
                   THEN <<"Min price must be less than max price">>
                   ELSE <<"getMinimumBalanceForRentExemption",
                          "initializePositionAndAddLiquidityByStrategy">>)
        r == Run(plan, e.fails)
        minBinId == IF e.bins # <<>> THEN e.bins[1] ELSE e.activeBin - 15
        maxBinId == IF e.bins # <<>> THEN e.bins[Len(e.bins)] ELSE e.activeBin + 15
        totalXAmount == f.baseTokenAmount
        totalYAmount == f.quoteTokenAmount
        sdk == IF Started(r, "initializePositionAndAddLiquidityByStrategy")
               THEN SdkCall("initializePositionAndAddLiquidityByStrategy",
                            totalXAmount, totalYAmount, minBinId, maxBinId,
                            "generated")
               ELSE NoSdk
        o == FilteredTransaction(f, r, sdk, e.answer)
    IN Done(o, CreatePosition_catch(o, validationErrors))

CreatePosition3_getInstruction(f, w, e, errs) ==
  LET validationErrors == CreatePosition_schema(f)
      isValid == validateInstruction(validationErrors)
  IN
  IF ~isValid \/ f.governedAccount = NoGov \/ ~w.publicKey \/ ~w.connected
  THEN Done(Invalid(f, isValid, NoRun, NoSdk, <<>>), validationErrors)
  ELSE
    LET r == Run(IF ~IsPubkey(f.dlmmPoolAddress) THEN <<InvalidPublicKey>>
                 ELSE <<"DLMM.create", "getActiveBin", "getAccountInfo",
                        "getMinimumBalanceForRentExemption",
                        "initializePositionAndAddLiquidityByStrategy">>,
                 e.fails)
        totalXAmount == f.baseTokenAmount
        totalYAmount == totalXAmount * e.price
        sdk == IF Started(r, "initializePositionAndAddLiquidityByStrategy")
               THEN SdkCall("initializePositionAndAddLiquidityByStrategy",
                            totalXAmount, totalYAmount,
                            e.activeBin - 15, e.activeBin + 15, "generated")
               ELSE NoSdk
        o == FilteredTransaction(f, r, sdk, e.answer)
    IN Done(o, CreatePosition_catch(o, validationErrors))

----------------------------------------------------------------------------
(* CreatePool.tsx, first and second component *)

CreateMeteoraPool_schema(f) ==
  FieldError(f.governedAccount = NoGov, "governedAccount", "Governed account is required")
  \cup FieldError(f.tokenAMint = "", "tokenAMint", "Token A Mint Address is required")
  \cup FieldError(f.tokenBMint = "", "tokenBMint", "Token B Mint Address is required")
  \cup FieldError(f.configAddress = "", "configAddress", "Config address is required")

CreateMeteoraPool_getInstruction(f, w, e, errs) ==
  LET validationErrors == CreateMeteoraPool_schema(f)
      isValid == validateInstruction(validationErrors)
  IN
  IF ~isValid \/ f.governedAccount = NoGov \/ ~w.publicKey \/ ~w.connected
  THEN Done(Invalid(f, isValid, NoRun, NoSdk, <<>>), validationErrors)
  ELSE Done(Resolved(f, TRUE, EmptyString, <<>>, TRUE, NoRun, NoSdk, <<>>),
            validationErrors)

CreateEmptyPosition_getInstruction(f, w, e, errs) ==
  LET validationErrors == AddLiquidity_schema(f)
      isValid == validateInstruction(validationErrors)
  IN
  IF ~isValid \/ f.governedAccount = NoGov \/ ~w.publicKey \/ ~w.connected
  THEN Done(Invalid(f, isValid, NoRun, NoSdk, <<>>), validationErrors)
  ELSE
    LET plan ==
          IF ~IsPubkey(f.dlmmPoolAddress) THEN <<InvalidPublicKey>>
          ELSE <<"DLMM.create", "refetchStates", "getActiveBin",
                 "useConnection", "getParsedAccountInfo">>
               \o (IF IsPubkey(f.positionPubkey)
                   THEN <<"createEmptyPosition">> ELSE <<InvalidPublicKey>>)
        r == Run(plan, e.fails \ {"getParsedAccountInfo"})
        sdk == IF Started(r, "createEmptyPosition")
               THEN SdkCall("createEmptyPosition", 0, 0,
                            e.activeBin - 10, e.activeBin + 10, f.positionPubkey)
               ELSE NoSdk
    IN Done(FirstTransaction(f, TRUE, r, sdk, e.answer,
                             "No transactions returned by create position.",
                             "No instructions in the create position transaction."),
            validationErrors)

----------------------------------------------------------------------------
(* CreatePool.tsx, third component, and part_000 *)

CreateDLMM_schema(f) ==
  FieldError(f.governedAccount = NoGov, "governedAccount", "Governed account is required")
  \cup FieldError(f.baseTokenMint = "", "baseTokenMint", "Base Token Mint is required")
  \cup FieldError(f.quoteTokenMint = "", "quoteTokenMint", "Quote Token Mint is required")

\* bs58.decode(value) does not throw
isBase58(value) == value # NotAKey

\* The account exists and the DLMM program owns it; every failure inside
\* is caught and answers false.
validateTokenAccountOwnership(tokenMint, e) ==
  /\ IsPubkey(tokenMint)
  /\ "getAccountInfo(owner)" \notin e.fails
  /\ e.owned

OwnershipCalls(tokenMint) ==
  IF IsPubkey(tokenMint) THEN <<"getAccountInfo(owner)">> ELSE <<>>

\* The errors preCheckValidation collects.
preCheckErrors(f, e) ==
  FieldError(f.governedAccount = NoGov, "governedAccount", "Governed account is required")
  \cup
  IF f.baseTokenMint = "" \/ f.quoteTokenMint = ""
  THEN FieldError(TRUE, "tokenMints", "Both token mint addresses must be provided")
  ELSE
    (IF ~validateTokenAccountOwnership(f.baseTokenMint, e)
     THEN FieldError(TRUE, "baseTokenMint", "Base Token Account ownership validation failed.")
     ELSE FieldError(~isBase58(f.baseTokenMint), "baseTokenMint",
                     "Base Token Mint is not a valid base58 string"))
    \cup
    (IF ~validateTokenAccountOwnership(f.quoteTokenMint, e)
     THEN FieldError(TRUE, "quoteTokenMint", "Quote Token Account ownership validation failed.")
     ELSE FieldError(~isBase58(f.quoteTokenMint), "quoteTokenMint",
                     "Quote Token Mint is not a valid base58 string"))

\* The calls preCheckValidation makes.
preCheckCalls(f) ==
  IF f.baseTokenMint = "" \/ f.quoteTokenMint = "" THEN <<>>
  ELSE OwnershipCalls(f.baseTokenMint) \o OwnershipCalls(f.quoteTokenMint)

\* The instruction createNewPoolInstruction builds by hand.
NewPoolInstruction == [programId |-> DlmmProgramId, data |-> ""]

\* getInstruction calls preCheckValidation without awaiting it: the
\* promise it returns is truthy whatever the checks find, and the checks
\* run on beside the producer and set the form errors when they end.
CreateDLMM_getInstruction(f, w, e, errs) ==
  LET validationErrors == CreateDLMM_schema(f)
      isValid == validateInstruction(validationErrors)
  IN
  IF ~isValid
  THEN Done(Invalid(f, isValid, NoRun, NoSdk, <<>>), validationErrors)
  ELSE
    LET pre == Run(preCheckCalls(f), {})
        r == Run(IF ~IsPubkey(f.baseTokenMint) \/ ~IsPubkey(f.quoteTokenMint)
                 THEN <<InvalidPublicKey>> ELSE <<"DLMM.create">>,
                 e.fails)
    IN
    IF r.failed # ""
    THEN Done(Invalid(f, TRUE, Then(pre, r), NoSdk, <<>>), preCheckErrors(f, e))
    ELSE Done(Resolved(f, TRUE, serializeInstructionToBase64(NewPoolInstruction),
                       <<>>, TRUE, Then(pre, r), NoSdk, <<>>),
              preCheckErrors(f, e))

\* part_000: preCheckValidation goes on to look the base mint up outside
\* any try block, so its promise can reject, unobserved, before it sets
\* the form errors; createNewPoolInstruction answers null when the pool
\* account exists.
CreateDLMMMeta_getInstruction(f, w, e, errs) ==
  LET validationErrors == CreateDLMM_schema(f)
      isValid == validateInstruction(validationErrors)
  IN
  IF ~isValid
  THEN Done(Invalid(f, isValid, NoRun, NoSdk, <<>>), validationErrors)
  ELSE
    LET pre == Run(preCheckCalls(f)
                     \o (IF IsPubkey(f.baseTokenMint) THEN <<"getAccountInfo">>
                         ELSE <<InvalidPublicKey>>),
                   e.fails \ {"getAccountInfo(owner)"})
        errors == IF pre.failed = "" THEN preCheckErrors(f, e) ELSE validationErrors
        r == Run(IF ~IsPubkey(f.baseTokenMint) \/ ~IsPubkey(f.quoteTokenMint)
                 THEN <<InvalidPublicKey>>
                 ELSE <<"getTokenMetadata", "getTokenMetadata", "getAccountInfo",
                        "getAccountInfo", "getAccountInfo">>
                      \o (IF e.poolExists THEN <<>>
                          ELSE <<"getPairPubkeyIfExists", "DLMM.create">>),
                 e.fails)
        calls == [calls |-> pre.calls \o r.calls, failed |-> r.failed]
    IN
    IF r.failed # "" \/ e.poolExists
    THEN Done(Invalid(f, TRUE, calls, NoSdk, <<>>), errors)
    ELSE Done(Resolved(f, TRUE, serializeInstructionToBase64(NewPoolInstruction),
                       <<>>, TRUE, calls, NoSdk, <<>>),
              errors)

----------------------------------------------------------------------------
(* CreatePool.tsx, fourth component *)

TransactionCompleted == <<"Transaction completed successfully">>

\* if (presetParameterGroup.length === 0) throw, CreatePool.tsx:756-759;
\* validPairs, the array of the component body, is not consulted.
PresetMissing_whenPairsKept(presetParameterGroup, validPairs) ==
  presetParameterGroup = {} \/ validPairs > 0

PresetMissing(presetParameterGroup, validPairs) == presetParameterGroup = {}

\* validPairs.push(programAccount) for every preset of the form's bin step
\* and base factor, CreatePool.tsx:761-778, reached when nothing before it
\* threw.  The array is that of the render which made the producer; its
\* length is kept.
validPairs_push(f, e, validPairs) ==
  IF \/ f.governedAccount = NoGov
     \/ "getAllPresetParameters" \in e.fails
     \/ PresetMissing({ p \in e.presets : p.binStep = f.binSize }, validPairs)
  THEN validPairs
  ELSE validPairs
       + Cardinality({ p \in e.presets :
                         p.binStep = f.binSize /\ p.baseFactor = f.baseFee })

\* presetParameter?.pubkey || new PublicKey("1111..."): the key of the
\* preset parameter account found, or the system program's.  It is
\* recorded as the `position` of the createLbPair call.
PresetPubkey    == "preset"
SystemProgramId == "11111111111111111111111111111111"

NewPoolPosition_newPoolPosition(f, w, e, errs, validPairs) ==
  LET presetParameterGroup == { p \in e.presets : p.binStep = f.binSize }
      plan ==
        IF f.governedAccount = NoGov THEN <<"Governance account is required.">>
        ELSE <<"getAllPresetParameters">>
             \o (IF PresetMissing(presetParameterGroup, validPairs)
                 THEN <<"No preset parameters found for binStep">>
                 ELSE IF ~IsPubkey(f.baseTokenMint) \/ ~IsPubkey(f.quoteTokenMint)
                 THEN <<InvalidPublicKey>>
                 ELSE <<"createLbPair", "serialize", "getLatestBlockhash",
                        "sendTransaction", "confirmTransaction",
                        "confirmTransaction">>)
      r == Run(plan, e.fails)
      presetParameter == { p \in presetParameterGroup : p.baseFactor = f.baseFee }
      sdk == IF Started(r, "createLbPair")
             THEN SdkCall("createLbPair", 0, 0, 0, 0,
                          IF presetParameter # {}
                          THEN PresetPubkey ELSE SystemProgramId)
             ELSE NoSdk
  IN
  IF r.failed # "" THEN Done(Invalid(f, FALSE, r, sdk, <<>>), errs)
  ELSE Done(Resolved(f, TRUE, TransactionCompleted, <<>>, FALSE, r, sdk, e.answer),
            errs)

----------------------------------------------------------------------------
(* RemoveLiquidity.tsx, both components *)

\* The schema's is-pubkey tests run new PublicKey on the value.
RemoveLiquidity_schema(f) ==
  FieldError(f.governedAccount = NoGov, "governedAccount", "Governed account is required")
  \cup (IF f.dlmmPoolAddress = ""
        THEN FieldError(TRUE, "dlmmPoolAddress", "DLMM pool address is required")
        ELSE FieldError(~IsPubkey(f.dlmmPoolAddress), "dlmmPoolAddress", "Invalid pool address"))
  \cup (IF f.positionPubkey = ""
        THEN FieldError(TRUE, "positionPubkey", "Position pubkey is required")
        ELSE FieldError(~IsPubkey(f.positionPubkey), "positionPubkey", "Invalid position pubkey"))

\* Only the first instruction of the first transaction is encoded.
FirstInstruction(f, r, sdk, txs, noTransactions, noInstructions) ==
  IF r.failed # "" THEN Invalid(f, TRUE, r, sdk, <<>>)
  ELSE IF Len(txs) = 0
  THEN Invalid(f, TRUE, Fail(r, noTransactions), sdk, txs)
  ELSE IF Len(txs[1]) = 0
  THEN Invalid(f, TRUE, Fail(r, noInstructions), sdk, txs)
  ELSE Resolved(f, TRUE, serializeInstructionToBase64(txs[1][1]), <<>>,
                TRUE, r, sdk, txs)

\* The steps with the handle of an earlier invocation kept.
RemoveLiquidity_plan_keptHandle(f, e, refetch) ==
  IF ~IsPubkey(f.dlmmPoolAddress) THEN <<InvalidPublicKey>>
  ELSE refetch
       \o (IF ~IsPubkey(f.positionPubkey) THEN <<InvalidPublicKey>>
           ELSE <<"getPositionsByUserAndLbPair">>
                \o (IF f.positionPubkey \in e.positions
                    THEN <<"removeLiquidity">>
                    ELSE <<"Position not found among user positions">>))

RemoveLiquidity_plan(f, e, refetch) ==
  IF ~IsPubkey(f.dlmmPoolAddress) THEN <<InvalidPublicKey>>
  ELSE <<"DLMM.create">> \o refetch
       \o (IF ~IsPubkey(f.positionPubkey) THEN <<InvalidPublicKey>>
           ELSE <<"getPositionsByUserAndLbPair">>
                \o (IF f.positionPubkey \in e.positions
                    THEN <<"removeLiquidity">>
                    ELSE <<"Position not found among user positions">>))

\* The first component removes from a freshly generated key, and returns
\* the empty string whatever it encoded.
RemoveLiquidity1_getInstruction(f, w, e, errs) ==
  LET validationErrors == RemoveLiquidity_schema(f)
      isValid == validateInstruction(validationErrors)
  IN
  IF ~isValid \/ f.governedAccount = NoGov \/ ~w.publicKey \/ ~w.connected
  THEN Done(Invalid(f, isValid, NoRun, NoSdk, <<>>), validationErrors)
  ELSE
    LET r == Run(RemoveLiquidity_plan(f, e, <<>>), e.fails)
        sdk == IF Started(r, "removeLiquidity")
               THEN SdkCall("removeLiquidity", 0, 0, 0, 0, "generated") ELSE NoSdk
        o == FirstInstruction(f, r, sdk, e.answer,
                              "No transactions returned by removeLiquidity",
                              "No instructions in the remove liquidity transaction.")
    IN Done([o EXCEPT !.serializedInstruction = EmptyString], validationErrors)

RemoveLiquidity2_getInstruction(f, w, e, errs) ==
  LET validationErrors == RemoveLiquidity_schema(f)
      isValid == validateInstruction(validationErrors)
  IN
  IF ~isValid \/ f.governedAccount = NoGov \/ ~w.publicKey \/ ~w.connected
  THEN Done(Invalid(f, isValid, NoRun, NoSdk, <<>>), validationErrors)
  ELSE
    LET r == Run(RemoveLiquidity_plan(f, e, <<"refetchStates">>), e.fails)
        sdk == IF Started(r, "removeLiquidity")
               THEN SdkCall("removeLiquidity", 0, 0, 0, 0, f.positionPubkey)
               ELSE NoSdk
    IN Done(FirstInstruction(f, r, sdk, e.answer,
                             "No transactions returned by removeLiquidity",
                             "No instructions in the remove liquidity transaction."),
            validationErrors)

----------------------------------------------------------------------------
(* part_001: close position *)

ClosePosition_schema(f) ==
  FieldError(f.governedAccount = NoGov, "governedAccount", "Governed account is required")
  \cup FieldError(f.dlmmPoolAddress = "", "dlmmPoolAddress", "DLMM pool address is required")
  \cup FieldError(f.positionPubkey = "", "positionPubkey", "Position public key is required")

ClosePosition_getInstruction(f, w, e, errs) ==
  LET validationErrors == ClosePosition_schema(f)
      isValid == validateInstruction(validationErrors)
  IN
  IF ~isValid \/ f.governedAccount = NoGov \/ ~w.publicKey \/ ~w.connected
  THEN Done(Invalid(f, isValid, NoRun, NoSdk, <<>>), validationErrors)
  ELSE
    LET plan ==
          IF ~IsPubkey(f.dlmmPoolAddress) THEN <<InvalidPublicKey>>
          ELSE <<"DLMM.create", "getPositionsByUserAndLbPair">>
               \o (IF e.positions = {}
                   THEN <<"Position not found for the given public key.">>
                   ELSE IF ~IsPubkey(f.positionPubkey) THEN <<InvalidPublicKey>>
                   ELSE IF f.positionPubkey \notin e.positions
                   THEN <<"Position not found for the given public key.">>
                   ELSE <<"removeLiquidity">>)
        r == Run(plan, e.fails)
        sdk == IF Started(r, "removeLiquidity")
               THEN SdkCall("removeLiquidity", 0, 0, 0, 0, f.positionPubkey)
               ELSE NoSdk
        txArray == e.answer
        filteredIxs == SelectSeq(FlatMap(txArray), NotComputeBudget)
        o == IF r.failed # "" THEN Invalid(f, TRUE, r, sdk, <<>>)
             ELSE IF Len(filteredIxs) = 0
             THEN Invalid(f, TRUE,
                          Fail(r, "No valid instructions found to remove liquidity."),
                          sdk, txArray)
             ELSE Resolved(f, TRUE, EmptyString, SerializeAll(filteredIxs),
                           TRUE, r, sdk, txArray)
    IN Done(o, IF o.failed # ""
               THEN WithGeneral(validationErrors,
                      <<"Error building close position instruction: ", o.failed>>)
               ELSE validationErrors)

----------------------------------------------------------------------------
(* ClaimRewards.tsx, first component, and part_004 *)

\* The schema requires selectedPosition, a field the form does not have.
ClaimRewards1_schema(f) ==
  FieldError(f.governedAccount = NoGov, "governedAccount", "Governed account is required")
  \cup (IF f.dlmmPoolAddress = ""
        THEN FieldError(TRUE, "dlmmPoolAddress", "DLMM pool address is required")
        ELSE FieldError(~IsPubkey(f.dlmmPoolAddress), "dlmmPoolAddress", "Invalid pool address"))
  \cup FieldError(TRUE, "selectedPosition", "You must select a position")

ClaimRewards2_schema(f) ==
  FieldError(f.governedAccount = NoGov, "governedAccount", "Governed account is required")
  \cup (IF f.dlmmPoolAddress = ""
        THEN FieldError(TRUE, "dlmmPoolAddress", "DLMM pool address is required")
        ELSE FieldError(~IsPubkey(f.dlmmPoolAddress), "dlmmPoolAddress", "Invalid pool address"))

ClaimRewards1_getInstruction(f, w, e, errs) ==
  LET validationErrors == ClaimRewards1_schema(f)
      isValid == validateInstruction(validationErrors)
  IN
  IF ~isValid \/ f.governedAccount = NoGov \/ ~w.publicKey \/ ~w.connected
     \/ f.dlmmPoolAddress = ""
  THEN Done(Invalid(f, isValid, NoRun, NoSdk, <<>>), validationErrors)
  ELSE IF ~IsPubkey(f.dlmmPoolAddress)
  THEN Done(Rejected(f, TRUE, Fail(NoRun, InvalidPublicKey)), validationErrors)
  ELSE
    LET r == Run(<<"DLMM.create", "refetchStates", "getPositionsByUserAndLbPair">>
                   \o (IF e.positions = {}
                       THEN <<"No positions found for this owner.">>
                       ELSE <<"claimAllRewards">>),
                 e.fails)
        sdk == IF Started(r, "claimAllRewards")
               THEN SdkCall("claimAllRewards", 0, 0, 0, 0, "") ELSE NoSdk
    IN Done(FirstInstruction(f, r, sdk, e.answer,
                             "No transactions returned by claimAllRewards",
                             "No instructions in the claimAllRewards transaction."),
            validationErrors)

ClaimRewards2_getInstruction(f, w, e, errs) ==
  LET validationErrors == ClaimRewards2_schema(f)
      isValid == validateInstruction(validationErrors)
  IN
  IF ~isValid \/ f.governedAccount = NoGov \/ ~w.publicKey \/ ~w.connected
  THEN Done(Invalid(f, isValid, NoRun, NoSdk, <<>>), validationErrors)
  ELSE IF ~IsPubkey(f.dlmmPoolAddress)
  THEN Done(Rejected(f, TRUE, Fail(NoRun, InvalidPublicKey)), validationErrors)
  ELSE
    LET r == Run(<<"DLMM.create", "refetchStates", "claimAllRewards">>, e.fails)
        sdk == IF Started(r, "claimAllRewards")
               THEN SdkCall("claimAllRewards", 0, 0, 0, 0, "") ELSE NoSdk
    IN Done(FirstInstruction(f, r, sdk, e.answer,
                             "No transactions returned by claimAllRewards",
                             "No instructions in the claimAllRewards transaction."),
            validationErrors)

----------------------------------------------------------------------------
(* The enclosing proposal form *)

\* The steps of each producer that the environment can make fail.
Ops(c) ==
  CASE c \in {AddLiquidity, CreateEmptyPosition} ->
         {"DLMM.create", "refetchStates", "getActiveBin", "useConnection",
          "getParsedAccountInfo",
          IF c = AddLiquidity THEN "addLiquidityByStrategy" ELSE "createEmptyPosition"}
    [] c = CreateLiquidityPool ->
         {"DLMM.create", "getActiveBin",
          "initializePositionAndAddLiquidityByStrategy",
          "signTransaction", "sendAndConfirmTransaction"}
    [] c = CreatePosition1 ->
         {"DLMM.create", "refetchStates", "getActiveBin",
          "initializePositionAndAddLiquidityByStrategy"}
    [] c = CreatePosition2 ->
         {"DLMM.create", "getBinsBetweenMinAndMaxPrice", "getActiveBin",
          "getMinimumBalanceForRentExemption",
          "initializePositionAndAddLiquidityByStrategy"}
    [] c = CreatePosition3 ->
         {"DLMM.create", "getActiveBin", "getAccountInfo",
          "getMinimumBalanceForRentExemption",
          "initializePositionAndAddLiquidityByStrategy"}
    [] c = CreateMeteoraPool -> {}
    [] c = CreateDLMM -> {"getAccountInfo(owner)", "DLMM.create"}
    [] c = CreateDLMMMeta ->
         {"getAccountInfo(owner)", "getAccountInfo", "getTokenMetadata",
          "getPairPubkeyIfExists", "DLMM.create"}
    [] c = NewPoolPosition ->
         {"getAllPresetParameters", "createLbPair", "serialize",
          "getLatestBlockhash", "sendTransaction", "confirmTransaction"}
    [] c = RemoveLiquidity1 ->
         {"DLMM.create", "getPositionsByUserAndLbPair", "removeLiquidity"}
    [] c = RemoveLiquidity2 ->
         {"DLMM.create", "refetchStates", "getPositionsByUserAndLbPair",
          "removeLiquidity"}
    [] c = ClosePosition ->
         {"DLMM.create", "getPositionsByUserAndLbPair", "removeLiquidity"}
    [] c = ClaimRewards1 ->
         {"DLMM.create", "refetchStates", "getPositionsByUserAndLbPair",
          "claimAllRewards"}
    [] c = ClaimRewards2 -> {"DLMM.create", "refetchStates", "claimAllRewards"}

\* What the SDK build call of each producer can return.
Answers(c) ==
  CASE c \in {AddLiquidity, CreatePosition1, CreateEmptyPosition, RemoveLiquidity1,
              RemoveLiquidity2, ClosePosition, ClaimRewards1, ClaimRewards2}
         -> SdkAnswers
    [] c \in {CreateLiquidityPool, CreatePosition2, CreatePosition3}
         -> SingleTxAnswers
    [] c = NewPoolPosition -> { << <<Ix1>> >> }
    [] OTHER -> {<<>>}

\* The answer taken when the build call is never reached.
Unobserved(c) == CHOOSE a \in Answers(c) : TRUE

\* What getBinsBetweenMinAndMaxPrice answers: the ids of the bins found.
BinRanges == { <<>>, <<95, 105>> }

Bins(c) == IF c = CreatePosition2 THEN BinRanges ELSE {<<>>}

\* The positions getPositionsByUserAndLbPair finds.
Positions(c) ==
  IF c \in {RemoveLiquidity1, RemoveLiquidity2, ClosePosition, ClaimRewards1}
  THEN {{}, {"A1"}} ELSE {{}}

\* Whether the account of a mint exists and is owned by the DLMM program.
Owned(c) == IF c \in {CreateDLMM, CreateDLMMMeta} THEN BOOLEAN ELSE {FALSE}

\* Whether the account at the pool address derived from the mints exists.
PoolExists(c) == IF c = CreateDLMMMeta THEN BOOLEAN ELSE {FALSE}

\* What getAllPresetParameters answers.
Presets(c) ==
  IF c = NewPoolPosition
  THEN {{}, {[binStep |-> 1, baseFactor |-> 1]}} ELSE {{}}

\* Failures a producer's callee absorbs without throwing.
Absorbed == {"getParsedAccountInfo", "getAccountInfo(owner)"}

\* The environments of one invocation.  The answer of the SDK build call
\* is only observed when no step before it throws.
Envs(c) ==
  { e \in [ fails      : SUBSET Ops(c),
            answer     : Answers(c),
            parsed     : {NoDecimals},
            bins       : Bins(c),
            positions  : Positions(c),
            owned      : Owned(c),
            poolExists : PoolExists(c),
            presets    : Presets(c),
            activeBin  : ActiveBinIds,
            price      : ActiveBinPrices ] :
      /\ Cardinality(e.fails) <= MaxFails
      /\ e.fails \subseteq Absorbed \/ e.answer = Unobserved(c) }

getInstruction(c, f, w, e, errs, validPairs) ==
  CASE c = AddLiquidity -> AddLiquidity_getInstruction(f, w, e, errs)
    [] c = CreateLiquidityPool -> CreateLiquidityPool_getInstruction(f, w, e, errs)
    [] c = CreatePosition1 -> CreatePosition1_getInstruction(f, w, e, errs)
    [] c = CreatePosition2 -> CreatePosition2_getInstruction(f, w, e, errs)
    [] c = CreatePosition3 -> CreatePosition3_getInstruction(f, w, e, errs)
    [] c = CreateMeteoraPool -> CreateMeteoraPool_getInstruction(f, w, e, errs)
    [] c = CreateEmptyPosition -> CreateEmptyPosition_getInstruction(f, w, e, errs)
    [] c = CreateDLMM -> CreateDLMM_getInstruction(f, w, e, errs)
    [] c = CreateDLMMMeta -> CreateDLMMMeta_getInstruction(f, w, e, errs)
    [] c = NewPoolPosition ->
         NewPoolPosition_newPoolPosition(f, w, e, errs, validPairs)
    [] c = RemoveLiquidity1 -> RemoveLiquidity1_getInstruction(f, w, e, errs)
    [] c = RemoveLiquidity2 -> RemoveLiquidity2_getInstruction(f, w, e, errs)
    [] c = ClosePosition -> ClosePosition_getInstruction(f, w, e, errs)
    [] c = ClaimRewards1 -> ClaimRewards1_getInstruction(f, w, e, errs)
    [] c = ClaimRewards2 -> ClaimRewards2_getInstruction(f, w, e, errs)

\* The dependency array of the component's registering effect: TRUE when
\* it names the whole form, FALSE when it names form.governedAccount only.
\* The other dependencies, handleSetInstructions and index, come from the
\* enclosing page, which an edit of this component's form does not render
\* again: they do not change between two renders of the component.
DependsOnForm(c) ==
  c \notin {AddLiquidity, CreateLiquidityPool, CreateDLMM, CreateDLMMMeta}

\* The guard around handleSetInstructions inside the effect.
EffectGuard(c, f) ==
  c \in {AddLiquidity, CreateLiquidityPool, CreateDLMM, CreateDLMMMeta,
         NewPoolPosition}
    => f.governedAccount # NoGov

\* Does the registering effect run after a render that took the form from
\* `old` to `new`, and does it call handleSetInstructions?
Registers(c, old, new) ==
  /\ DependsOnForm(c) \/ old.governedAccount # new.governedAccount
  /\ EffectGuard(c, new)

\* handleSetInstructions({governedAccount, getInstruction}, index): the
\* slot holds the producer, a closure over the form of that render.
Registration(f) ==
  [registered |-> TRUE, governedAccount |-> f.governedAccount, closure |-> f,
   validPairs |-> 0]

----------------------------------------------------------------------------
(* part_005: the wallet store *)

\* The calls of fetchRealm that can be under way together.
MaxCalls == 2

Calls == 1..MaxCalls

\* The keys of the accounts on chain.
RealmKeys      == {"r1", "r2"}
GovernanceKeys == {"g1", "g2"}
ProposalKeys   == {"p1", "p2"}

\* The maps of the store as created: all empty.
InitialStore ==
  [realms |-> <<>>, governances |-> <<>>, proposals |-> <<>>, votes |-> <<>>]

\* A call not made yet.  A call made keeps the maps it fetched and the
\* supply of the community mint.
IdleCall ==
  [pc |-> "idle", realmId |-> "", realms |-> <<>>, governances |-> <<>>,
   proposals |-> <<>>, votes |-> <<>>, supply |-> 0]

\* The same keeping the source's entries only.
Object_assign_sourceOnly(target, source) == source

\* Object.assign({}, target, source)
Object_assign(target, source) ==
  [k \in DOMAIN target \cup DOMAIN source |->
     IF k \in DOMAIN source THEN source[k] ELSE target[k]]

Init ==
  /\ component \in Components
  /\ wallet \in Wallets
  /\ form = InitialForm
  /\ registered = EffectGuard(component, InitialForm)
  /\ slot = IF EffectGuard(component, InitialForm)
            THEN Registration(InitialForm)
            ELSE [registered |-> FALSE, governedAccount |-> NoGov,
                  closure |-> InitialForm, validPairs |-> 0]
  /\ last = NoOutcome
  /\ formErrors = {}
  /\ poolDetails = NoDetails
  /\ fetches = EmptyBag
  /\ isLoadingPoolDetails = FALSE
  /\ call = [fn |-> "none"]
  /\ ret = [kind |-> "none"]
  /\ lookup = NoLookup
  /\ store = InitialStore
  /\ fetchRealms = [c \in Calls |-> IdleCall]

\* A number with a fraction is a pair <<numerator, denominator>> with a
\* positive denominator.
Times(x, y) == <<x[1] * y[1], x[2] * y[2]>>
Over(x, y)  == <<x[1] * y[2], x[2] * y[1]>>

\* An amount of the form, which is a whole number.
Whole(x) == x[1] \div x[2]

\* The same cutting the digits after the last decimal off.
roundToDecimals_floor(value, decimals) ==
  LET multiplier == Pow10(decimals)
  IN <<(value[1] * multiplier) \div value[2], multiplier>>

\* Math.round(value * multiplier) / multiplier.  Math.round is the
\* floor of its argument plus one half.
roundToDecimals(value, decimals) ==
  LET multiplier == Pow10(decimals)
  IN <<(2 * value[1] * multiplier + value[2]) \div (2 * value[2]), multiplier>>

\* What the onChange of an amount input of CreatePosition.tsx spreads
\* into the form beside the amount itself: the other amount, or nothing.
\* `autofill` is prev.autofill, `loaded` says that poolDetails is not
\* null, `price` is poolDetails.current_price.
autofilled(field, value, autofill, loaded, price) ==
  IF autofill /\ loaded
  THEN IF field = "baseTokenAmount"
       THEN <<roundToDecimals(Times(value, price), 6)>>
       ELSE <<roundToDecimals(Over(value, price), 6)>>
  ELSE <<>>

\* The same with the other amount filled in whatever the autofill switch
\* says.
onChange_fillsAlways(c, f, field, value, details) ==
  LET price == details.current_price
      fills == HasPoolDetails(c) /\ details # NoDetails
  IN CASE fills /\ field = "baseTokenAmount" ->
            [f EXCEPT !.quoteTokenAmount = value * price]
       [] fills /\ field = "quoteTokenAmount" ->
            [f EXCEPT !.baseTokenAmount = value \div price]
       [] OTHER -> f

\* The onChange of an input, applied to the form in which the input's own
\* field already holds the entered value.  `details` is the poolDetails
\* of the render.  The amount inputs of the create-position forms fill in
\* the other amount from the pool's current price, and so does the
\* autofill switch when it is turned on.
onChange(c, f, field, value, details) ==
  LET price  == details.current_price
      loaded == details # NoDetails
      other  == IF field = "baseTokenAmount"
                THEN "quoteTokenAmount" ELSE "baseTokenAmount"
  IN CASE c = CreatePosition2 /\ field \in {"baseTokenAmount", "quoteTokenAmount"} ->
            LET fill == autofilled(field, <<value, 1>>, f.autofill, loaded,
                                   <<price, 1>>)
            IN IF fill = <<>> THEN f ELSE [f EXCEPT ![other] = Whole(fill[1])]
       [] c = CreatePosition2 /\ field = "autofill" /\ f.autofill /\ loaded
          /\ f.baseTokenAmount # 0 ->
            [f EXCEPT !.quoteTokenAmount =
               Whole(roundToDecimals(Times(<<f.baseTokenAmount, 1>>, <<price, 1>>), 6))]
       [] c = CreatePosition2 /\ field = "autofill" /\ f.autofill /\ loaded
          /\ f.quoteTokenAmount # 0 ->
            [f EXCEPT !.baseTokenAmount =
               Whole(roundToDecimals(Over(<<f.quoteTokenAmount, 1>>, <<price, 1>>), 6))]
       [] c = CreatePosition3 /\ loaded /\ field = "baseTokenAmount" ->
            [f EXCEPT !.quoteTokenAmount = value * price]
       [] c = CreatePosition3 /\ loaded /\ field = "quoteTokenAmount" ->
            [f EXCEPT !.baseTokenAmount = value \div price]
       [] OTHER -> f

\* The onChange of the min and max price inputs of CreatePosition.tsx:
\* with pool details present, a price outside 0.8 .. 1.2 times the
\* current price is noted under the field, one inside clears the note.
priceErrors(c, errs, field, value, details) ==
  IF c = CreatePosition2 /\ field \in {"minPrice", "maxPrice"}
     /\ details # NoDetails
  THEN LET rest == { x \in errs : x.field # field }
       IN IF 10 * value < 8 * details.current_price
             \/ 10 * value > 12 * details.current_price
          THEN rest \cup {[field |-> field,
                           message |-> <<"Price should be between">>]}
          ELSE rest
  ELSE errs

\* The requests of the price feed that can be in flight at a time.
\* Requests that overlap are followed in the create-position form of
\* ClaimRewards.tsx, whose fetchPoolDetails and effect are those of
\* CreatePosition.tsx; in the latter the next address is typed after the
\* answer to the last.
MaxFetches == 2

FetchLimit(c) == IF c = CreatePosition3 THEN MaxFetches ELSE 1

\* A user edit of one input: the form sets the field, the input's
\* onChange runs, then the render and its effects: the registration of
\* the producer and, in the create-position forms, the effect on
\* form.dlmmPoolAddress that starts fetchPoolDetails or clears the
\* details.
SetField ==
  \E field \in Inputs(component) :
    \E value \in Values(component, field) :
      /\ value # form[field]
      /\ form' = onChange(component, [form EXCEPT ![field] = value],
                          field, value, poolDetails)
      /\ formErrors' = priceErrors(component, formErrors, field, value,
                                   poolDetails)
      /\ registered' = Registers(component, form, form')
      /\ slot' = IF Registers(component, form, form')
                 THEN Registration(form') ELSE slot
      /\ last' = NoOutcome
      /\ IF HasPoolDetails(component) /\ field = "dlmmPoolAddress"
         THEN IF value # ""
              THEN /\ BagCardinality(fetches) < FetchLimit(component)
                   /\ fetches' = fetches (+) SetToBag({value})
                   /\ isLoadingPoolDetails' = TRUE
                   /\ UNCHANGED poolDetails
              ELSE /\ poolDetails' = NoDetails
                   /\ UNCHANGED <<fetches, isLoadingPoolDetails>>
         ELSE UNCHANGED <<poolDetails, fetches, isLoadingPoolDetails>>
      /\ UNCHANGED <<component, wallet, call, ret, lookup, store, fetchRealms>>

\* fetchPoolDetails(address) after its await: the response is not ok, or
\* it carries the pair's details; the finally block clears the loading
\* flag.  Only a pool has a pair.
FetchPoolDetails ==
  \E address \in BagToSet(fetches) :
    /\ fetches' = fetches (-) SetToBag({address})
    /\ isLoadingPoolDetails' = FALSE
    /\ \/ /\ IsPubkey(address)
          /\ \E price \in PoolPrices :
               poolDetails' = [name |-> address, current_price |-> price]
          /\ UNCHANGED formErrors
       \/ /\ formErrors' =
               { x \in formErrors : x.field # "dlmmPoolAddress" }
               \cup {[field |-> "dlmmPoolAddress",
                      message |-> <<"Failed to fetch pool details">>]}
          /\ UNCHANGED poolDetails
    /\ last' = NoOutcome
    /\ UNCHANGED <<component, form, wallet, slot, registered, call, ret,
                   lookup, store, fetchRealms>>

\* The proposal invokes the producer registered in the slot.
Submit ==
  /\ slot.registered
  /\ \E e \in Envs(component) :
       \E d \in { getInstruction(component, slot.closure, wallet, e,
                                 formErrors, slot.validPairs) } :
         LET pushed == IF component = NewPoolPosition
                       THEN validPairs_push(slot.closure, e, slot.validPairs)
                       ELSE slot.validPairs
         IN /\ pushed <= MaxValidPairs
            /\ last' = d.outcome
            /\ formErrors' = d.errors
            /\ slot' = [slot EXCEPT !.validPairs = pushed]
  /\ registered' = FALSE
  /\ UNCHANGED <<component, wallet, form, poolDetails, fetches,
                 isLoadingPoolDetails, call, ret,
                 lookup, store, fetchRealms>>

Next == SetField \/ FetchPoolDetails \/ Submit

Spec == Init /\ [][Next]_vars

----------------------------------------------------------------------------
(* The library functions, applied to bounded inputs *)

\* Amount strings have digits 0..MaxDigits, or one of the larger ones,
\* and up to six of them after the point.
MaxDigits == 45

\* The base58 alphabet of bs58, a character's digit being its place less
\* one.
ALPHABET ==
  <<"1", "2", "3", "4", "5", "6", "7", "8", "9", "A", "B", "C", "D", "E",
  "F", "G", "H", "J", "K", "L", "M", "N", "P", "Q", "R", "S", "T", "U",
  "V", "W", "X", "Y", "Z", "a", "b", "c", "d", "e", "f", "g", "h", "i",
  "j", "k", "m", "n", "o", "p", "q", "r", "s", "t", "u", "v", "w", "x",
  "y", "z">>

\* Public keys the source itself names (CreatePool.tsx:443 and 794,
\* part_000:100), one character to an element.
KnownAddresses ==
  { <<"L", "B", "U", "Z", "K", "h", "R", "x", "P", "F", "3", "X", "U",
    "p", "B", "C", "j", "p", "4", "Y", "z", "T", "K", "g", "L", "c", "c",
    "j", "Z", "h", "T", "S", "D", "M", "9", "Y", "u", "V", "a", "P", "w",
    "x", "o">>,
    <<"T", "o", "k", "e", "n", "k", "e", "g", "Q", "f", "e", "Z", "y",
    "i", "N", "w", "A", "J", "b", "N", "b", "G", "K", "P", "F", "X", "C",
    "W", "u", "B", "v", "f", "9", "S", "s", "6", "2", "3", "V", "Q", "5",
    "D", "A">>,
    <<"1", "1", "1", "1", "1", "1", "1", "1", "1", "1", "1", "1", "1",
    "1", "1", "1", "1", "1", "1", "1", "1", "1", "1", "1", "1", "1", "1",
    "1", "1", "1", "1", "1">> }

\* Strings that are no key: empty, too short, too long (the last one is
\* the 33 bytes of Meteora.tsx:11), 'not-a-key'.
OtherStrings ==
  { <<>>, <<"a", "b", "c">>, <<"1">>, <<"n", "o", "t", "-", "a", "-", "k", "e", "y">>,
    <<"1", "1", "1", "1", "1", "1", "1", "1", "1", "1", "1", "1", "1",
    "1", "1", "1", "1", "1", "1", "1", "1", "1", "1", "1", "1", "1", "1",
    "1", "1", "1", "1", "1", "1">>,
    <<"M", "3", "m", "x", "k", "5", "W", "2", "t", "t", "2", "7", "W",
    "G", "Z", "W", "p", "Z", "R", "7", "h", "U", "p", "V", "7", "c", "5",
    "H", "q", "m", "8", "G", "f", "w", "U", "t", "b", "y", "L", "J", "G",
    "r", "j", "1">> }

\* The characters put in place of one of a string's own: four that the
\* alphabet leaves out, and two that are no letters or digits.
ForeignCharacters == {"0", "O", "I", "l", "-", " "}

\* bs58.decode(value): the leading '1's are zero bytes, the rest is a
\* number written in base 58; a character outside the alphabet throws.
\* The same with such a character passed over.
bs58_decode_lenient(value) ==
  LET digit(ch) == (CHOOSE i \in 1..Len(ALPHABET) : ALPHABET[i] = ch) - 1
      known == SelectSeq(value, LAMBDA ch : \E i \in 1..Len(ALPHABET) : ALPHABET[i] = ch)
      RECURSIVE Zeroes(_)
      Zeroes(i) == IF i <= Len(known) /\ known[i] = "1" THEN 1 + Zeroes(i + 1) ELSE 0
      RECURSIVE Number(_, _)
      Number(i, acc) == IF i > Len(known) THEN acc
                        ELSE Number(i + 1, MulSmall(acc, 58, digit(known[i])))
      number == Number(Zeroes(1) + 1, <<>>)
  IN [kind |-> "bytes", zeroes |-> Zeroes(1), number |-> number,
      length |-> Zeroes(1) + (BitLength(number) + 7) \div 8]

bs58_decode(value) ==
  LET digit(ch) == (CHOOSE i \in 1..Len(ALPHABET) : ALPHABET[i] = ch) - 1
      foreign(ch) == \A i \in 1..Len(ALPHABET) : ALPHABET[i] # ch
      RECURSIVE Zeroes(_)
      Zeroes(i) == IF i <= Len(value) /\ value[i] = "1" THEN 1 + Zeroes(i + 1) ELSE 0
      RECURSIVE Number(_, _)
      Number(i, acc) == IF i > Len(value) THEN acc
                        ELSE Number(i + 1, MulSmall(acc, 58, digit(value[i])))
      number == Number(Zeroes(1) + 1, <<>>)
  IN IF \E i \in 1..Len(value) : foreign(value[i])
     THEN [kind |-> "throws", zeroes |-> 0, number |-> <<>>, length |-> 0]
     ELSE [kind |-> "bytes", zeroes |-> Zeroes(1), number |-> number,
           length |-> Zeroes(1) + (BitLength(number) + 7) \div 8]

\* new PublicKey(value) of a string: decodes it and throws unless the
\* bytes are 32.
PublicKey(value) ==
  LET decoded == bs58_decode(value)
  IN IF decoded.kind = "bytes" /\ decoded.length = 32
     THEN decoded
     ELSE [decoded EXCEPT !.kind = "throws"]

\* Pool names are strings of at most MaxName of these characters.
MaxName == 4
NameCharacters == {"a", "b", "-", " "}

\* pairs.split('-')
RECURSIVE split(_)
split(pairs) ==
  IF \E i \in 1..Len(pairs) : pairs[i] = "-"
  THEN LET i == CHOOSE i \in 1..Len(pairs) :
                  pairs[i] = "-" /\ \A k \in 1..(i - 1) : pairs[k] # "-"
       IN <<SubSeq(pairs, 1, i - 1)>> \o split(SubSeq(pairs, i + 1, Len(pairs)))
  ELSE <<pairs>>

\* pair.trim()
RECURSIVE trim(_)
trim(pair) ==
  IF pair # <<>> /\ pair[1] = " " THEN trim(Tail(pair))
  ELSE IF pair # <<>> /\ pair[Len(pair)] = " "
       THEN trim(SubSeq(pair, 1, Len(pair) - 1))
       ELSE pair

\* fetchPoolData(dlmmPoolAddress) given the response of the price feed.
\* A value that may be undefined is <<>> when it is and <<v>> otherwise.
fetchPoolData(dlmmPoolAddress, response) ==
  LET undefined == <<>>
      Element(parts, i) == IF i <= Len(parts) THEN <<parts[i]>> ELSE undefined
      Property(data, key) == IF key \in DOMAIN data THEN <<data[key]>>
                             ELSE undefined
  IN
  IF ~response.ok
  THEN [kind |-> "rejects", value |-> undefined]
  ELSE LET data == response.data
           parts == [i \in 1..Len(split(data.name)) |-> trim(split(data.name)[i])]
       IN [kind |-> "resolves",
           value |-> [baseToken |-> Element(parts, 2),
                      quoteToken |-> Element(parts, 1),
                      binStep |-> Property(data, "binStep"),
                      binSize |-> Property(data, "binSize")]]

\* Amounts and prices with a fraction: some have more than six decimals,
\* 15/10^7 lies halfway between two numbers of six decimals.
Fractions ==
  { <<0, 1>>, <<1, 1>>, <<2, 1>>, <<1, 3>>, <<2, 3>>, <<1, 7>>,
    <<14, 10000000>>, <<15, 10000000>>, <<25, 10000000>> }

FractionalPrices == { <<2, 1>>, <<3, 2>>, <<1, 3>> }

LibraryCalls ==
  [fn : {"ScaledAmount"},
   amount : [digits : (0..MaxDigits) \cup {82, 10000000},
             scale : {0, 1, 2, 6}],
   mintDecimals : {0, 2, 6, 9}]
  \cup
  [fn : {"getMintDecimals"}, mintAddress : Addresses,
   e : [fails : SUBSET {"useConnection", "getParsedAccountInfo"},
        parsed : {NoDecimals, 0, 9}]]
  \cup
  [fn : {"isBase58", "is-pubkey"},
   value : KnownAddresses \cup OtherStrings
           \cup UNION { { [s EXCEPT ![i] = ch] :
                            i \in 1..Len(s), ch \in ForeignCharacters } :
                          s \in KnownAddresses \cup OtherStrings }]
  \cup
  [fn : {"fetchPoolData"}, dlmmPoolAddress : {"A1"},
   response : [ok : BOOLEAN,
               data : [name : UNION { [1..n -> NameCharacters] : n \in 0..MaxName },
                       current_price : PoolPrices,
                       bin_step : {1, 25}]]]
  \cup
  [fn : {"autofill"}, field : {"baseTokenAmount", "quoteTokenAmount"},
   value : Fractions, autofill : BOOLEAN, loaded : BOOLEAN,
   price : FractionalPrices]

LibraryInit ==
  /\ component = AddLiquidity
  /\ wallet = [publicKey |-> TRUE, connected |-> TRUE]
  /\ form = InitialForm
  /\ registered = FALSE
  /\ slot = [registered |-> FALSE, governedAccount |-> NoGov,
             closure |-> InitialForm, validPairs |-> 0]
  /\ last = NoOutcome
  /\ formErrors = {}
  /\ poolDetails = NoDetails
  /\ fetches = EmptyBag
  /\ isLoadingPoolDetails = FALSE
  /\ call \in LibraryCalls
  /\ ret = [kind |-> "none"]
  /\ lookup = NoLookup
  /\ store = InitialStore
  /\ fetchRealms = [c \in Calls |-> IdleCall]

\* AddLiquidity.tsx:122-123, CreatePool.tsx:244-245
ScaleAmount ==
  /\ call.fn = "ScaledAmount"
  /\ ret.kind = "none"
  /\ ret' = ScaledAmount(call.amount, call.mintDecimals)
  /\ UNCHANGED <<component, form, wallet, slot, registered, last,
                 formErrors, poolDetails, fetches,
                 isLoadingPoolDetails, call, lookup, store, fetchRealms>>

\* GetMintDecimals.tsx:14-31; useConnection() at line 15 stands before
\* the try block, what it throws leaves the function as a rejection.
GetMintDecimals ==
  /\ call.fn = "getMintDecimals"
  /\ ret.kind = "none"
  /\ ret' = IF "useConnection" \in call.e.fails
            THEN [kind |-> "rejects", value |-> NoDecimals]
            ELSE [kind |-> "resolves",
                  value |-> getMintDecimals(call.mintAddress, call.e)]
  /\ UNCHANGED <<component, form, wallet, slot, registered, last,
                 formErrors, poolDetails, fetches,
                 isLoadingPoolDetails, call, lookup, store, fetchRealms>>

\* isBase58(value), CreatePool.tsx:370-377, and the schema test
\* 'is-pubkey', RemoveLiquidity.tsx:27-34: true unless the decoding, or
\* the PublicKey constructor, throws.
CheckAddress ==
  /\ call.fn \in {"isBase58", "is-pubkey"}
  /\ ret.kind = "none"
  /\ ret' = [kind |-> "returns",
             value |-> IF call.fn = "isBase58"
                       THEN bs58_decode(call.value).kind # "throws"
                       ELSE PublicKey(call.value).kind # "throws"]
  /\ UNCHANGED <<component, form, wallet, slot, registered, last,
                 formErrors, poolDetails, fetches,
                 isLoadingPoolDetails, call, lookup, store, fetchRealms>>

\* fetchPoolData.ts:19-52
FetchPoolData ==
  /\ call.fn = "fetchPoolData"
  /\ ret.kind = "none"
  /\ ret' = fetchPoolData(call.dlmmPoolAddress, call.response)
  /\ UNCHANGED <<component, form, wallet, slot, registered, last,
                 formErrors, poolDetails, fetches,
                 isLoadingPoolDetails, call, lookup, store, fetchRealms>>

\* CreatePosition.tsx:682-713, the amount inputs' onChange
Autofill ==
  /\ call.fn = "autofill"
  /\ ret.kind = "none"
  /\ ret' = [kind |-> "returns",
             value |-> autofilled(call.field, call.value, call.autofill,
                                  call.loaded, call.price)]
  /\ UNCHANGED <<component, form, wallet, slot, registered, last,
                 formErrors, poolDetails, fetches,
                 isLoadingPoolDetails, call, lookup, store, fetchRealms>>

LibraryNext ==
  ScaleAmount \/ GetMintDecimals \/ CheckAddress \/ FetchPoolData \/ Autofill

Library == LibraryInit /\ [][LibraryNext]_vars

----------------------------------------------------------------------------
(* DecimalLookup.tsx *)

\* Mint accounts report decimals 0..MaxDecimals.
MaxDecimals == 9

\* The addresses typed into the lookup: those of the forms and a second
\* key.
MintAddresses == Addresses \cup {"A2"}

\* What connection.getAccountInfo and MintLayout.decode can come to: a
\* rejection with or without a message, no account, data too short to
\* decode, the decimals of a mint.
AccountInfoAnswers ==
  [kind : {"rejects"}, message : {"", "failed to fetch"}]
  \cup [kind : {"null", "short"}]
  \cup [kind : {"mint"}, decimals : 0..MaxDecimals]

\* lookupDecimals up to its await, lines 29-36; the same without
\* setDecimals(null).
lookupDecimals_keepsDecimals(l) ==
  IF ~IsPubkey(l.mintAddress)
  THEN [l EXCEPT !.loading = FALSE, !.error = "Invalid public key input",
                 !.phase = "ended", !.closure = l.mintAddress]
  ELSE [l EXCEPT !.loading = TRUE, !.error = "",
                 !.phase = "awaiting", !.closure = l.mintAddress]

lookupDecimals(l) ==
  IF ~IsPubkey(l.mintAddress)
  THEN [l EXCEPT !.loading = FALSE, !.decimals = NoDecimals,
                 !.error = "Invalid public key input",
                 !.phase = "ended", !.closure = l.mintAddress]
  ELSE [l EXCEPT !.loading = TRUE, !.decimals = NoDecimals, !.error = "",
                 !.phase = "awaiting", !.closure = l.mintAddress]

\* lookupDecimals from its await on, lines 36-50.
lookupDecimals_resume(l, answer) ==
  LET ended == [l EXCEPT !.loading = FALSE, !.phase = "ended"]
  IN CASE answer.kind = "rejects" ->
            [ended EXCEPT !.error = IF answer.message # "" THEN answer.message
                                    ELSE "Error fetching mint decimals."]
       [] answer.kind = "null" ->
            [ended EXCEPT !.error = "Mint account not found."]
       [] answer.kind = "short" ->
            [ended EXCEPT !.error = "The value of \"offset\" is out of range."]
       [] answer.kind = "mint" ->
            [ended EXCEPT !.decimals = answer.decimals]

LookupInit ==
  /\ component = AddLiquidity
  /\ wallet = [publicKey |-> TRUE, connected |-> TRUE]
  /\ form = InitialForm
  /\ registered = FALSE
  /\ slot = [registered |-> FALSE, governedAccount |-> NoGov,
             closure |-> InitialForm, validPairs |-> 0]
  /\ last = NoOutcome
  /\ formErrors = {}
  /\ poolDetails = NoDetails
  /\ fetches = EmptyBag
  /\ isLoadingPoolDetails = FALSE
  /\ call = [fn |-> "none"]
  /\ ret = [kind |-> "none"]
  /\ lookup = NoLookup
  /\ store = InitialStore
  /\ fetchRealms = [c \in Calls |-> IdleCall]

\* onChange of the input, line 61
SetMintAddress ==
  /\ \E value \in MintAddresses :
       /\ value # lookup.mintAddress
       /\ lookup' = [lookup EXCEPT !.mintAddress = value]
  /\ UNCHANGED <<component, form, wallet, slot, registered, last,
                 formErrors, poolDetails, fetches,
                 isLoadingPoolDetails, call, ret, store, fetchRealms>>

\* A click on the button, which is disabled while loading or without an
\* address (line 65).
LookupDecimals ==
  /\ ~lookup.loading
  /\ lookup.mintAddress # ""
  /\ lookup' = lookupDecimals(lookup)
  /\ UNCHANGED <<component, form, wallet, slot, registered, last,
                 formErrors, poolDetails, fetches,
                 isLoadingPoolDetails, call, ret, store, fetchRealms>>

\* The run goes on after its await.
LookupDecimalsResume ==
  /\ lookup.phase = "awaiting"
  /\ \E answer \in AccountInfoAnswers :
       lookup' = lookupDecimals_resume(lookup, answer)
  /\ UNCHANGED <<component, form, wallet, slot, registered, last,
                 formErrors, poolDetails, fetches,
                 isLoadingPoolDetails, call, ret, store, fetchRealms>>

LookupNext == SetMintAddress \/ LookupDecimals \/ LookupDecimalsResume

Lookup == LookupInit /\ [][LookupNext]_vars

----------------------------------------------------------------------------
(* part_005: fetchRealm *)

\* The accounts a call fetches are the ones on chain when it asks; what
\* the call `c` parsed is written `c`.
Fetched(c, keys) == [k \in keys |-> c]

StoreInit ==
  /\ component = AddLiquidity
  /\ wallet = [publicKey |-> TRUE, connected |-> TRUE]
  /\ form = InitialForm
  /\ registered = FALSE
  /\ slot = [registered |-> FALSE, governedAccount |-> NoGov,
             closure |-> InitialForm, validPairs |-> 0]
  /\ last = NoOutcome
  /\ formErrors = {}
  /\ poolDetails = NoDetails
  /\ fetches = EmptyBag
  /\ isLoadingPoolDetails = FALSE
  /\ call = [fn |-> "none"]
  /\ ret = [kind |-> "none"]
  /\ lookup = NoLookup
  /\ store = InitialStore
  /\ fetchRealms = [c \in Calls |-> IdleCall]

\* fetchRealm(programId, realmId) up to its first await.
FetchRealm ==
  /\ \E c \in Calls, realmId \in RealmKeys :
       /\ fetchRealms[c].pc = "idle"
       /\ fetchRealms' = [fetchRealms EXCEPT
            ![c] = [IdleCall EXCEPT !.pc = "getGovernanceAccounts<Realm>",
                                    !.realmId = realmId]]
  /\ UNCHANGED <<component, form, wallet, slot, registered, last,
                 formErrors, poolDetails, fetches, isLoadingPoolDetails,
                 call, ret, lookup, store>>

\* The realms answer: they are merged into the store, then the community
\* mint of the realm asked for is read, which throws when the realm is not
\* among them.
RealmsFetched ==
  /\ \E c \in Calls, keys \in SUBSET RealmKeys :
       LET realms == Fetched(c, keys) IN
       /\ fetchRealms[c].pc = "getGovernanceAccounts<Realm>"
       /\ store' = [store EXCEPT !.realms = Object_assign(@, realms)]
       /\ fetchRealms' = [fetchRealms EXCEPT
            ![c].realms = realms,
            ![c].pc = IF fetchRealms[c].realmId \in keys
                      THEN "getMint" ELSE "rejected"]
  /\ UNCHANGED <<component, form, wallet, slot, registered, last,
                 formErrors, poolDetails, fetches, isLoadingPoolDetails,
                 call, ret, lookup>>

\* getMint answers.
MintFetched ==
  /\ \E c \in Calls, supply \in {0, 1} :
       /\ fetchRealms[c].pc = "getMint"
       /\ fetchRealms' = [fetchRealms EXCEPT
            ![c].supply = supply,
            ![c].pc = "getGovernanceAccounts<Governance>"]
  /\ UNCHANGED <<component, form, wallet, slot, registered, last,
                 formErrors, poolDetails, fetches, isLoadingPoolDetails,
                 call, ret, lookup, store>>

\* The governances of the realm answer and are merged into the store.
GovernancesFetched ==
  /\ \E c \in Calls, keys \in SUBSET GovernanceKeys :
       LET governances == Fetched(c, keys) IN
       /\ fetchRealms[c].pc = "getGovernanceAccounts<Governance>"
       /\ store' = [store EXCEPT !.governances = Object_assign(@, governances)]
       /\ fetchRealms' = [fetchRealms EXCEPT
            ![c].governances = governances,
            ![c].pc = "getGovernanceAccounts<Proposal>"]
  /\ UNCHANGED <<component, form, wallet, slot, registered, last,
                 formErrors, poolDetails, fetches, isLoadingPoolDetails,
                 call, ret, lookup>>

\* The proposals of every governance fetched have answered: together they
\* are merged into the store.  Without a governance there is none.
ProposalsFetched ==
  /\ \E c \in Calls, keys \in SUBSET ProposalKeys :
       LET proposals == Fetched(c, keys) IN
       /\ fetchRealms[c].pc = "getGovernanceAccounts<Proposal>"
       /\ DOMAIN fetchRealms[c].governances = {} => keys = {}
       /\ store' = [store EXCEPT !.proposals = Object_assign(@, proposals)]
       /\ fetchRealms' = [fetchRealms EXCEPT
            ![c].proposals = proposals,
            ![c].pc = "getGovernanceAccounts<VoteRecord>"]
  /\ UNCHANGED <<component, form, wallet, slot, registered, last,
                 formErrors, poolDetails, fetches, isLoadingPoolDetails,
                 call, ret, lookup>>

\* The vote records of every proposal fetched have answered.  The weights
\* are divided by the supply of the mint, which throws when it is zero;
\* otherwise one entry for each proposal is merged into the store.
VotesFetched ==
  /\ \E c \in Calls :
       LET proposalIds == DOMAIN fetchRealms[c].proposals
           votesByProposal == Fetched(c, proposalIds)
       IN
       /\ fetchRealms[c].pc = "getGovernanceAccounts<VoteRecord>"
       /\ IF proposalIds # {} /\ fetchRealms[c].supply = 0
          THEN /\ fetchRealms' = [fetchRealms EXCEPT ![c].pc = "rejected"]
               /\ UNCHANGED store
          ELSE /\ store' = [store EXCEPT !.votes = Object_assign(@, votesByProposal)]
               /\ fetchRealms' = [fetchRealms EXCEPT
                    ![c].votes = votesByProposal,
                    ![c].pc = "resolved"]
  /\ UNCHANGED <<component, form, wallet, slot, registered, last,
                 formErrors, poolDetails, fetches, isLoadingPoolDetails,
                 call, ret, lookup>>

\* The request a call awaits fails: the call rejects where it stands.
FetchFails ==
  /\ \E c \in Calls :
       /\ fetchRealms[c].pc \notin {"idle", "resolved", "rejected"}
       /\ fetchRealms' = [fetchRealms EXCEPT ![c].pc = "rejected"]
  /\ UNCHANGED <<component, form, wallet, slot, registered, last,
                 formErrors, poolDetails, fetches, isLoadingPoolDetails,
                 call, ret, lookup, store>>

StoreNext ==
  \/ FetchRealm
  \/ RealmsFetched
  \/ MintFetched
  \/ GovernancesFetched
  \/ ProposalsFetched
  \/ VotesFetched
  \/ FetchFails

Store == StoreInit /\ [][StoreNext]_vars

----------------------------------------------------------------------------
(* What an outcome shows *)

\* Every step the environment can make fail.
Steps == UNION { Ops(c) : c \in Components }

Invoked == last.kind # "none"

\* The invocation issued a call to the RPC node or the SDK.
NetworkCall(o) == \E i \in 1..Len(o.calls) : o.calls[i] \in RemoteCalls

\* DLMM.create was called and answered.
PoolResolved(o) == Started(o, "DLMM.create") /\ o.failed # "DLMM.create"

\* The SDK build call was made and answered.
BuildReturned(o) == o.sdk.op # "" /\ o.failed \notin Steps

\* Every instruction the SDK build call returned, in order.
ReturnedInstructions(o) == FlatMap(o.returned)

\* The encoded instructions of a result, primary first.
Encoded(o) == <<o.serializedInstruction>> \o o.additionalSerializedInstructions

\* The fields each component's schema requires, among the text fields.
RequiredFields(c) ==
  CASE c \in {AddLiquidity, CreateEmptyPosition, RemoveLiquidity1, RemoveLiquidity2,
              ClosePosition} ->
         {"governedAccount", "dlmmPoolAddress", "positionPubkey"}
    [] c = CreateLiquidityPool ->
         {"governedAccount", "baseTokenMint", "quoteTokenMint", "configAddress"}
    [] c = CreatePosition1 -> {}
    [] c \in {CreatePosition2, CreatePosition3, ClaimRewards1, ClaimRewards2} ->
         {"governedAccount", "dlmmPoolAddress"}
    [] c = CreateMeteoraPool ->
         {"governedAccount", "tokenAMint", "tokenBMint", "configAddress"}
    [] c \in {CreateDLMM, CreateDLMMMeta, NewPoolPosition} ->
         {"governedAccount", "baseTokenMint", "quoteTokenMint"}

\* The yup schema each component hands to validateInstruction;
\* CreatePosition.tsx:55-125 and newPoolPosition validate nothing.
schema(c, f) ==
  CASE c \in {AddLiquidity, CreateEmptyPosition} -> AddLiquidity_schema(f)
    [] c = CreateLiquidityPool -> CreateLiquidityPool_schema(f)
    [] c \in {CreatePosition2, CreatePosition3} -> CreatePosition_schema(f)
    [] c = CreateMeteoraPool -> CreateMeteoraPool_schema(f)
    [] c \in {CreateDLMM, CreateDLMMMeta} -> CreateDLMM_schema(f)
    [] c \in {RemoveLiquidity1, RemoveLiquidity2} -> RemoveLiquidity_schema(f)
    [] c = ClosePosition -> ClosePosition_schema(f)
    [] c = ClaimRewards1 -> ClaimRewards1_schema(f)
    [] c = ClaimRewards2 -> ClaimRewards2_schema(f)
    [] OTHER -> {}

RequiredMissing(c, f) ==
  \/ c = ClaimRewards1
  \/ \E field \in RequiredFields(c) : f[field] \in {"", NoGov}

\* The amounts typed into the form that an SDK liquidity or position call
\* was handed, each with its token and the value handed over.
Handed(c, o) ==
  IF o.sdk.op \notin {"addLiquidityByStrategy",
                      "initializePositionAndAddLiquidityByStrategy"}
  THEN {}
  ELSE
    CASE c = AddLiquidity ->
           { [token |-> "base",  entered |-> o.read.baseToken,
              handed |-> o.sdk.totalYAmount],
             [token |-> "quote", entered |-> o.read.quoteToken,
              handed |-> o.sdk.totalXAmount] }
      [] c = CreatePosition2 ->
           { [token |-> "base",  entered |-> o.read.baseTokenAmount,
              handed |-> o.sdk.totalXAmount],
             [token |-> "quote", entered |-> o.read.quoteTokenAmount,
              handed |-> o.sdk.totalYAmount] }
      [] c = CreatePosition1 ->
           { [token |-> "base", entered |-> o.read.tokenAmount,
              handed |-> o.sdk.totalXAmount] }
      [] c \in {CreatePosition3, CreateLiquidityPool} ->
           { [token |-> "base", entered |-> o.read.baseTokenAmount,
              handed |-> o.sdk.totalXAmount] }
      [] OTHER -> {}

MintDecimals(token) ==
  IF token = "base" THEN BaseMintDecimals ELSE QuoteMintDecimals

\* The messages that say the SDK returned no instructions.
NoInstructionsMessages ==
  { "No transactions returned by addLiquidity.",
    "No instructions in the add liquidity transaction.",
    "No transactions returned by create position.",
    "No instructions in the create position transaction.",
    "No instructions returned by create position.",
    "No transactions returned by removeLiquidity",
    "No instructions in the remove liquidity transaction.",
    "No valid instructions found to remove liquidity.",
    "No transactions returned by claimAllRewards",
    "No instructions in the claimAllRewards transaction." }

----------------------------------------------------------------------------
(* Properties *)

\* C1: a producer never rejects: whatever remote call fails during an
\* invocation, the promise resolves, and it resolves with isValid false.
C1_NeverRejects ==
  Invoked =>
    /\ last.kind = "resolved"
    /\ last.failed \in RemoteCalls => ~last.isValid

\* C2: a result has isValid true only if, in that invocation, schema
\* validation passed, the pool handle was resolved, and an SDK build call
\* returned at least one instruction.
C2_ValidOnlyIfBuilt ==
  Invoked /\ last.isValid =>
    /\ last.validated
    /\ PoolResolved(last)
    /\ BuildReturned(last)
    /\ Len(ReturnedInstructions(last)) >= 1

\* C3: when a required field of the form the producer reads is missing,
\* the producer returns isValid false and issues no network call.
C3_MissingFieldNoNetwork ==
  Invoked /\ RequiredMissing(component, last.read) =>
    /\ ~last.isValid
    /\ ~NetworkCall(last)

\* C4: when the wallet has no public key or is not connected, the producer
\* returns isValid false and issues no network call.
C4_NoWalletNoNetwork ==
  Invoked /\ (~wallet.publicKey \/ ~wallet.connected) =>
    /\ ~last.isValid
    /\ ~NetworkCall(last)

\* C5: when the pool resolves and the SDK build call returns no
\* instruction (no transaction, no instruction, or none but compute
\* budget ones), the result has isValid false and an empty
\* serializedInstruction, and the form shows a general error saying that
\* no instructions were returned.
C5_NoInstructionsIsAnError ==
  ( /\ Invoked
    /\ PoolResolved(last)
    /\ BuildReturned(last)
    /\ SelectSeq(ReturnedInstructions(last), NotComputeBudget) = <<>> )
  =>
    /\ ~last.isValid
    /\ last.serializedInstruction = EmptyString
    /\ \E err \in formErrors :
         /\ err.field = "general"
         /\ err.message[Len(err.message)] \in NoInstructionsMessages

\* C6: in a result with isValid true the primary instruction followed by
\* the additional ones is exactly the encoding, in order and once each, of
\* every instruction the SDK returned over all its transactions, compute
\* budget instructions left out; the primary instruction is not empty.
C6_EveryInstructionEncoded ==
  Invoked /\ last.isValid =>
    /\ last.serializedInstruction # EmptyString
    /\ Encoded(last)
         = SerializeAll(SelectSeq(ReturnedInstructions(last), NotComputeBudget))

\* C7: no encoded instruction of a result with isValid true is a compute
\* budget instruction.
C7_NoComputeBudgetEncoded ==
  Invoked /\ last.isValid =>
    \A i \in 1..Len(Encoded(last)) :
      Encoded(last)[i] # serializeInstructionToBase64(Cb)

\* C8: every change of the form state, whatever the field, calls
\* handleSetInstructions again for the slot, with the current governance
\* and a producer of the current form.
C8_EveryChangeRegisters ==
  [][ form' # form =>
        /\ registered'
        /\ slot'.governedAccount = form'.governedAccount
        /\ slot'.closure = form' ]_vars

\* C9: the producer registered last, when invoked, reads the current form
\* state, never the values of an earlier registration.
C9_ProducerReadsCurrentForm ==
  Invoked => last.read = form

\* C10: every amount handed to an SDK liquidity or position call is the
\* amount typed converted to base units with the decimals of its own
\* token's mint, or with the fallback of 6 decimals.
C10_AmountsInBaseUnits ==
  Invoked =>
    \A h \in Handed(component, last) :
      \/ h.handed = ToBaseUnits(h.entered, MintDecimals(h.token))
      \/ h.handed = ToBaseUnits(h.entered, FallbackDecimals)

\* C11: for every non-negative decimal amount string and decimal count the
\* computed base-unit amount is floor(amount * 10^decimals).
C11_FloorOfProduct ==
  call.fn = "ScaledAmount" /\ ret.kind # "none"
    => LET whole  == MulSmall(<<>>, 1, call.amount.digits)
           scaled == TimesPower(whole, 10, call.mintDecimals)
       IN /\ ret.kind = "value"
          /\ ret.value = OverPower(scaled, 10, call.amount.scale).q

\* C12: getMintDecimals never rejects; it resolves to the parsed decimals
\* when the lookup returns them and to 6 in every other case.
C12_DecimalsOrFallback ==
  call.fn = "getMintDecimals" /\ ret.kind # "none"
    => /\ ret.kind = "resolves"
       /\ ret.value =
            IF /\ IsPubkey(call.mintAddress)
               /\ "getParsedAccountInfo" \notin call.e.fails
               /\ call.e.parsed # NoDecimals
            THEN call.e.parsed ELSE 6

\* C13: every strategy range handed to an SDK position or liquidity call
\* has minBinId <= maxBinId: the fixed-window forms hand over the active
\* bin minus and plus their constant, the price-bounded form makes the
\* call only when minPrice < maxPrice.
C13_RangeOrdered ==
  LET s == last.sdk
      N == IF component = CreatePosition3 THEN 15 ELSE 10
  IN s.op \in {"addLiquidityByStrategy", "createEmptyPosition",
               "initializePositionAndAddLiquidityByStrategy"}
       => /\ s.minBinId <= s.maxBinId
          /\ component # CreatePosition2
               => \E a \in ActiveBinIds :
                    s.minBinId = a - N /\ s.maxBinId = a + N
          /\ component = CreatePosition2
               => last.read.minPrice < last.read.maxPrice

\* The price-bounded form has made the call with the bins the pool
\* answered for the price range.
C13_PriceBoundedCall ==
  /\ component = CreatePosition2
  /\ last.sdk.op = "initializePositionAndAddLiquidityByStrategy"
  /\ last.read.minPrice < last.read.maxPrice
  /\ last.sdk.minBinId = 95 /\ last.sdk.maxBinId = 105

StepOrder(o, builds) ==
  LET At(S)   == { i \in 1..Len(o.calls) : o.calls[i] \in S }
      resolve == At({"DLMM.create"})
      queries == At({"refetchStates", "getActiveBin",
                     "getBinsBetweenMinAndMaxPrice",
                     "getPositionsByUserAndLbPair"})
      build   == At(builds)
  IN /\ \A i \in resolve : \A j \in queries \cup build : i < j
     /\ \A i \in queries : \A j \in build : i < j
     /\ queries \cup build # {} => PoolResolved(o)
     /\ build # {} /\ o.serializedInstruction # EmptyString
          => BuildReturned(o)

Changed == { k \in DOMAIN form : form'[k] # form[k] }

OutsideAlphabet(value) ==
  \E i \in 1..Len(value) : \A k \in 1..Len(ALPHABET) : ALPHABET[k] # value[i]

C19_PreCheckGates ==
  (component \in {CreateDLMM, CreateDLMMMeta} /\ Invoked
     /\ last.validated /\ formErrors # {})
    => /\ ~last.isValid
       /\ ~Started(last, "DLMM.create")
       /\ last.failed = ""

\* C20: fetchPoolData rejects when the response is not ok; otherwise it
\* resolves, with the trimmed part of the name before the '-' as
\* quoteToken and the trimmed part after it as baseToken when the name has
\* one separator, and with the bin step the response reports.
C20_PoolData ==
  (call.fn = "fetchPoolData" /\ ret.kind # "none")
    => IF ~call.response.ok
       THEN ret.kind = "rejects"
       ELSE LET name == call.response.data.name
                at == { i \in 1..Len(name) : name[i] = "-" }
            IN /\ ret.kind = "resolves"
               /\ \A i \in at :
                    at = {i} =>
                      /\ ret.value.quoteToken = <<trim(SubSeq(name, 1, i - 1))>>
                      /\ ret.value.baseToken = <<trim(SubSeq(name, i + 1, Len(name)))>>
               /\ ret.value.binStep = <<call.response.data.bin_step>>

\* C21: a run of lookupDecimals that has ended has left loading false and
\* either decimals with no error or an error with decimals null; decimals
\* are never there together with an error.
C21_DecimalsOrError ==
  /\ lookup.phase = "ended"
       => /\ ~lookup.loading
          /\ (lookup.decimals # NoDecimals) # (lookup.error # "")
  /\ ~(lookup.decimals # NoDecimals /\ lookup.error # "")

\* A run has ended with the account not found.
C21_RunEndedWithError ==
  /\ lookup.phase = "ended"
  /\ lookup.error = "Mint account not found."
  /\ lookup.decimals = NoDecimals

\* C22: every result a producer returns carries the governance of the
\* governed account selected in the form, undefined when none is.
C22_GovernanceOfTheForm ==
  (Invoked /\ last.kind = "resolved") => last.governance = form.governedAccount

\* A producer has failed after its remote calls began, with a governed
\* account selected.
C22_FailureWithGovernance ==
  /\ Invoked
  /\ last.kind = "resolved"
  /\ ~last.isValid
  /\ last.failed \in RemoteCalls
  /\ form.governedAccount \in Govs


\* C23: in the DLMMClaimAllRewards form with the position selector, when a
\* governed account is selected, the pool address is a valid public key,
\* the wallet is connected, the owner has a position and claimAllRewards
\* returns a transaction with an instruction, the producer returns isValid
\* true with the encoding of that transaction's first instruction.
C23_ClaimSucceeds ==
  ( /\ Invoked
    /\ component = ClaimRewards1
    /\ last.read.governedAccount \in Govs
    /\ IsPubkey(last.read.dlmmPoolAddress)
    /\ wallet.publicKey
    /\ wallet.connected )
  =>
    \A e \in Envs(component) :
      ( /\ e.fails = {}
        /\ e.positions # {}
        /\ Len(e.answer) > 0
        /\ Len(e.answer[1]) > 0 )
      =>
        LET result == getInstruction(component, last.read, wallet, e,
                                     formErrors, 0).outcome
        IN /\ result.isValid
           /\ result.serializedInstruction
                = serializeInstructionToBase64(e.answer[1][1])


C25_DetailsOfTheCurrentPool ==
  (HasPoolDetails(component) /\ fetches = EmptyBag) =>
    \/ poolDetails = NoDetails
    \/ poolDetails.name = form.dlmmPoolAddress

\* C26: in the create-position forms, isLoadingPoolDetails is true
\* whenever a pool-details fetch is in flight and false only when none is.
C26_LoadingWhileInFlight ==
  HasPoolDetails(component) =>
    (isLoadingPoolDetails <=> fetches # EmptyBag)


\* C27: in the remove-liquidity and close-position forms, removeLiquidity
\* is called only after the position named in form.positionPubkey was
\* found among the user's positions, and with exactly that position; when
\* the position is not found the producer returns isValid false without
\* calling removeLiquidity.
C27_RemovesTheNamedPosition ==
  (Invoked /\ component \in {RemoveLiquidity1, RemoveLiquidity2, ClosePosition}) =>
    /\ last.sdk.op = "removeLiquidity" =>
         /\ \E i \in 1..Len(last.calls) :
              last.calls[i] = "getPositionsByUserAndLbPair"
         /\ last.sdk.position = last.read.positionPubkey
    /\ last.failed \in {"Position not found among user positions",
                        "Position not found for the given public key."} =>
         /\ ~last.isValid
         /\ last.sdk = NoSdk


\* C28: in the self-submitting CreateDLMM variant, the pool-creation
\* transaction is built and sent only if a preset parameter account exists
\* whose binStep is the form's binSize and whose baseFactor is the form's
\* baseFee; otherwise the producer returns isValid false and sends nothing.
C28_PresetMatchesTheForm ==
  (Invoked /\ component = NewPoolPosition) =>
    /\ Started(last, "createLbPair") => last.sdk.position = PresetPubkey
    /\ Started(last, "sendTransaction") => last.sdk.position = PresetPubkey
    /\ last.isValid => last.sdk.position = PresetPubkey


\* The keys of the four maps of the store.
StoreMaps == {"realms", "governances", "proposals", "votes"}

\* C29: fetchRealm only adds or overwrites entries: under any
\* interleaving of concurrent calls no key present in realms, governances,
\* proposals or votes is removed, and once every call has finished each
\* map holds every key that every call fetched.
C29_NoLostUpdate ==
  /\ [][\A m \in StoreMaps : DOMAIN store[m] \subseteq DOMAIN store'[m]]_vars
  /\ []( (\A c \in Calls : fetchRealms[c].pc \in {"resolved", "rejected"}) =>
           \A m \in StoreMaps : \A c \in Calls :
             DOMAIN fetchRealms[c][m] \subseteq DOMAIN store[m] )

\* Two calls that ran together have both resolved, each having fetched a
\* key the other did not, in every map.
C29_TwoCallsResolved ==
  /\ fetchRealms[1].pc = "resolved"
  /\ fetchRealms[2].pc = "resolved"
  /\ \A m \in StoreMaps :
       /\ DOMAIN fetchRealms[1][m] \ DOMAIN fetchRealms[2][m] # {}
       /\ DOMAIN fetchRealms[2][m] \ DOMAIN fetchRealms[1][m] # {}
       /\ DOMAIN store[m] = DOMAIN fetchRealms[1][m] \cup DOMAIN fetchRealms[2][m]

====
